---- MODULE Spec2Model ----
(***************************************************************************)
(* Model of the VibeSDK command-line client (src/cli-tool/src/index.ts).   *)
(*                                                                         *)
(*   Spec         createAgent: the POST /api/agent call and the read loop  *)
(*                that reassembles the newline-delimited response stream.  *)
(*                and main's steps around it, up to connectWebSocket.      *)
(*   SpecChannel  the WebSocket 'message' listener, the asynchronous       *)
(*                handleWebSocketMessage handlers it starts, and saveFile. *)
(*   SpecFileSeq  the same listener and handlers, fed the frames of one    *)
(*                file: generating, chunk, chunk, generated.               *)
(*                                                                         *)
(* The wire is a sequence of tokens.  A token is an indivisible piece of   *)
(* text; "\n" is the line separator and " " is white space.  Every JSON    *)
(* document is two tokens long, so that a network read can end inside it.  *)
(***************************************************************************)
EXTENDS Naturals, Sequences, FiniteSets, TLC

VARIABLES
    \* ---- createAgent (index.ts:55-139) ----
    stream,        \* the bytes of the response body, fixed when the call is made
    pos,           \* how many tokens reader.read() has delivered so far
    pc,            \* where main() is: inside createAgent at "fetch" | "read" |
                   \* "done" (returned); then "connecting" (await
                   \* connectWebSocket), "loop" (commandLoop),
                   \* "exit0" | "exit1" (process.exit)
    buffer,        \* index.ts:94, the unterminated-line carry-over
    agentId,       \* index.ts:28
    websocketUrl,  \* index.ts:29
    stdout,        \* texts written by process.stdout.write (index.ts:128)
    errs,          \* number of 'Failed to parse JSON line' logs (index.ts:131)
    acted,         \* history: frames the loop acted on, in order
    seen,          \* history: non-blank lines the loop examined, in order
    parsed,        \* history: lines handed to JSON.parse, in order
    carried,       \* history: some read ended inside a line
    \* ---- the channel (index.ts:179-186, 201-401) and saveFile (42-52) ----
    filesMap,      \* index.ts:31
    disk,          \* the files under OUTPUT_DIR/<agentId>/
    handlers,      \* the handleWebSocketMessage calls that are suspended at an await
    arrived,       \* number of 'message' events so far
    script,        \* the frames the server will send, when they are fixed in advance
    ended,         \* history: the handler call that returned or rejected last
    nCalls,        \* history: number of saveFile calls so far
    lastCall,      \* history: arguments of the latest saveFile call
    latest,        \* history: per path, the contents the latest frame carried for it
    ioFailed,      \* history: some mkdir or writeFile has failed
    written,       \* history: the locations writeFile has opened
    \* ---- main (index.ts:475-508) ----
    query,         \* the argument of createAgent (index.ts:55, 493)
    netCalls,      \* history: number of fetch calls made (index.ts:76)
    fatal,         \* the error main's catch block reports (index.ts:504-506)
    \* ---- connectWebSocket (index.ts:142-198) and sendMessage (404-411) ----
    authToken,     \* index.ts:24, AUTH_TOKEN
    ws,            \* index.ts:30
    readyState,    \* ws.readyState of the one socket that was created
    wsError,       \* history: the socket has emitted 'error'
    request,       \* the upgrade request new WebSocket(...) sent (index.ts:156-162)
    connects,      \* history: number of sockets created
    sent,          \* the frames handed to ws.send, in order (index.ts:410)
    notConnected,  \* number of 'WebSocket not connected' logs (index.ts:407)
    returned,      \* what the latest sendMessage call returned or threw
    cmds,          \* number of commands read by commandLoop (index.ts:416-421)
    lastCmd,       \* the command read last
    \* ---- handleWebSocketMessage, frames that save no file (201-401) ----
    lastDeploymentUrl, \* index.ts:32
    noticeLog,     \* number of notices these frames' handlers have logged
    lastNotice,    \* the kind of the notice logged last
    parseErrs,     \* number of 'Failed to parse WebSocket message' logs (184)
    urlShown,      \* what the latest /url command printed (index.ts:438-443)
    lastFrame,     \* history: the frame of this kind handled last
    completed,     \* history: per lineage, the URL of its latest completion
    latestDone,    \* history: the URL of the latest completion of any lineage
    phaseShown,    \* history: per phase number, the status displayed last
    phaseFailed,   \* history: the phase numbers a phase_failed was handled for
    \* ---- the server (controller.ts, imageProcessor.ts) ----
    creation,      \* startCodeGeneration: position, writer, stream, response
    upgrade,       \* handleWebSocketConnection: the request and its outcome
    images         \* processImagePlaceholders: the code, options and result

createVars == <<stream, pos, pc, buffer, stdout, errs,
                acted, seen, parsed, carried>>
sessionVars == <<agentId, websocketUrl>>
channelVars == <<filesMap, disk, handlers, arrived, script, ended, nCalls,
                 lastCall, latest, ioFailed, written>>

mainVars == <<query, netCalls, fatal>>
wsVars == <<authToken, ws, readyState, wsError, request, connects>>
loopVars == <<sent, notConnected, returned, cmds, lastCmd>>

noticeVars == <<lastDeploymentUrl, noticeLog, lastNotice, parseErrs, urlShown,
                lastFrame, completed, latestDone, phaseShown, phaseFailed>>

serverVars == <<creation, upgrade, images>>

clientVars == <<createVars, sessionVars, channelVars, mainVars, wsVars,
                loopVars, noticeVars>>

vars == <<clientVars, serverVars>>

NULL == "null"
NONE == "none"

\* ------------------------------------------------------------------------
\* Files
\* ------------------------------------------------------------------------
Paths == {"p1", "p2"}
Contents == {"A", "B"}
\* A path that has no file / no map entry.
ABSENT == "absent"
\* A file that writeFile has opened (and so emptied) and not yet filled.
TRUNCATED == "truncated"
\* A file that two overlapping writeFile calls have written into.
MIXED == "mixed"

\* A file name that climbs out of the session's directory, and one that
\* has a ".." segment and stays inside it.
EscapingPath == "../../etc/x"
DottedPath == "lib/../p3"
AllPaths == Paths \cup {EscapingPath, DottedPath}

\* The segments of a file name, as path.join splits it at "/".
Segments(p) ==
    CASE p = EscapingPath -> <<"..", "..", "etc", "x">>
      [] p = DottedPath   -> <<"lib", "..", "p3">>
      [] OTHER            -> <<p>>

\* path.join normalises what it has joined: a ".." segment removes the
\* segment before it, and stays when there is none left to remove.
RECURSIVE JoinOnto(_, _)
JoinOnto(done, segs) ==
    IF segs = <<>> THEN done
    ELSE IF Head(segs) = ".." /\ done # <<>> /\ done[Len(done)] # ".."
         THEN JoinOnto(SubSeq(done, 1, Len(done) - 1), Tail(segs))
         ELSE JoinOnto(Append(done, Head(segs)), Tail(segs))

\* index.ts:25, './output' relative to the working directory
OUTPUT_DIR == <<"output">>

\* const outputPath = join(OUTPUT_DIR, agentId, filePath) (index.ts:45)
OutputPath(aid, p) == JoinOnto(<<>>, OUTPUT_DIR \o <<aid>> \o Segments(p))

NoFiles == [p \in AllPaths |-> ABSENT]
NoCall == <<NONE, NONE>>
NoHandler == [k |-> 0, ok |-> TRUE]

\* The two deployment flows: deployment_* frames (preview sandbox) and
\* cloudflare_deployment_* frames (production).
Lineages == {"preview", "production"}
\* msg.phaseNumber of the phase_* frames
PhaseNumbers == {1, 2}
\* A frame that carries nothing but its type; no frame yet.
Plain(t) == [type |-> t]
NoInbound == Plain(NONE)
NoUrls == [l \in Lineages |-> NONE]
NoPhases == [n \in PhaseNumbers |-> NONE]

\* The server before any request: no creation, no upgrade, no code to
\* process.
NoCreation == [pc |-> "idle", query |-> NONE, agentId |-> NONE,
               queue |-> <<>>, wire |-> <<>>, closed |-> FALSE,
               errored |-> FALSE, status |-> 0, chunks |-> 0]
NoUpgrade == [pc |-> "idle"]
NoImages == [pc |-> "idle"]
ServerIdle ==
    /\ creation = NoCreation
    /\ upgrade = NoUpgrade
    /\ images = NoImages

\* ------------------------------------------------------------------------
\* Text
\* ------------------------------------------------------------------------
NL == "\n"
WS == " "

\* The sentinel the loop compares a line with (index.ts:108).
Terminate == <<"termi", "nate">>

IdentA     == <<"{agentId:a1,websocketUrl:w1,template:{name:t}", "}">>
IdentB     == <<"{agentId:a2,websocketUrl:w2,template:{name:t}", "}">>
IdentNoTpl == <<"{agentId:a2,websocketUrl:w2", "}">>
ChunkHello == <<"{chunk:hello", "}">>
ChunkPlan  == <<"{chunk:plan", "}">>
EmptyObj   == <<"{", "}">>
Blank      == <<WS>>
Garbage    == <<"{chunk:hello">>
\* The first object the server writes (controller.ts:126-135), for session
\* a1 and channel ws://x.
IdentX     == <<"{agentId:a1,websocketUrl:ws://x,template:{name:t,files:[]}", "}">>

\* JSON.parse (index.ts:114) on the documents above; anything else is a
\* SyntaxError.  A field that is absent reads as "" (falsy).
Obj(a, w, t, c) == [ok |-> TRUE, agentId |-> a, websocketUrl |-> w,
                    template |-> t, chunk |-> c]

JSONParse(line) ==
    CASE line = IdentA     -> Obj("a1", "w1", TRUE, "")
      [] line = IdentB     -> Obj("a2", "w2", TRUE, "")
      [] line = IdentNoTpl -> Obj("a2", "w2", FALSE, "")
      [] line = ChunkHello -> Obj("", "", FALSE, "hello")
      [] line = ChunkPlan  -> Obj("", "", FALSE, "plan")
      [] line = EmptyObj   -> Obj("", "", FALSE, "")
      [] line = IdentX     -> Obj("a1", "ws://x", TRUE, "")
      [] OTHER             -> [Obj("", "", FALSE, "") EXCEPT !.ok = FALSE]

\* String.prototype.split('\n') (index.ts:102): never returns an empty list.
RECURSIVE SplitNL(_)
SplitNL(s) ==
    IF \A i \in 1..Len(s) : s[i] # NL
    THEN <<s>>
    ELSE LET i == CHOOSE k \in 1..Len(s) :
                      s[k] = NL /\ \A j \in 1..(k - 1) : s[j] # NL
         IN  <<SubSeq(s, 1, i - 1)>> \o SplitNL(SubSeq(s, i + 1, Len(s)))

\* !line.trim() (index.ts:106)
IsBlank(line) == \A i \in 1..Len(line) : line[i] = WS

\* A loop that knows no sentinel and hands every line to JSON.parse.
IsSentinelNever(line) == FALSE

\* line === 'terminate' (index.ts:108)
IsSentinel(line) == line = Terminate

\* lines.pop() || '' (index.ts:103): what stays in the buffer ...
CarryOverDropped(lines) == <<>>
CarryOver(lines) == lines[Len(lines)]
\* ... and what is left in `lines` for the for loop.
Complete(lines) == SubSeq(lines, 1, Len(lines) - 1)

\* ------------------------------------------------------------------------
\* createAgent: the body of the for loop (index.ts:105-133)
\* ------------------------------------------------------------------------
\* The loop's state: the two globals, the output, the logs, and `broke`,
\* set when the for loop has been left by `break`.
LoopState(a, w, o, e, ac, se, pa) ==
    [agentId |-> a, websocketUrl |-> w, stdout |-> o, errs |-> e,
     acted |-> ac, seen |-> se, parsed |-> pa, broke |-> FALSE]

\* catch (err) { console.error(...) } (index.ts:130-132): log, go on with
\* the next line.
OnParseErrorBreak(st) == [st EXCEPT !.errs = @ + 1, !.broke = TRUE]
OnParseError(st) == [st EXCEPT !.errs = @ + 1]

\* if (data.agentId && data.websocketUrl) { ... } (index.ts:116-124).  The
\* globals are assigned before template.name is read, so a frame without a
\* template sets them and then lands in the catch block.
OnIdentity(st, d) ==
    LET set == [st EXCEPT !.agentId = d.agentId,
                          !.websocketUrl = d.websocketUrl,
                          !.acted = Append(@, <<"identity", d.agentId, d.websocketUrl>>)]
    IN  IF d.template THEN set ELSE OnParseError(set)

\* A loop that notes the chunk and writes it out later.
OnChunkHeld(st, d) ==
    [st EXCEPT !.acted = Append(@, <<"chunk", d.chunk>>)]

\* else if (data.chunk) { process.stdout.write(...) } (index.ts:125-129)
OnChunk(st, d) ==
    [st EXCEPT !.stdout = Append(@, d.chunk),
               !.acted = Append(@, <<"chunk", d.chunk>>)]

\* try { const data = JSON.parse(line); ... } catch ... (index.ts:113-132)
HandleData(st, line) ==
    LET d  == JSONParse(line)
        s1 == [st EXCEPT !.parsed = Append(@, line)]
    IN  IF ~d.ok THEN OnParseError(s1)
        ELSE IF d.agentId # "" /\ d.websocketUrl # "" THEN OnIdentity(s1, d)
        ELSE IF d.chunk # "" THEN OnChunk(s1, d)
        ELSE s1

\* if (line === 'terminate') { ...; break; } (index.ts:108-111)
OnSentinel(st) ==
    [st EXCEPT !.acted = Append(@, <<"sentinel">>), !.broke = TRUE]

\* One iteration of the for loop (index.ts:105-133).
HandleLine(st, line) ==
    IF IsBlank(line) THEN st
    ELSE LET s1 == [st EXCEPT !.seen = Append(@, line)]
         IN  IF IsSentinel(line) THEN OnSentinel(s1) ELSE HandleData(s1, line)

\* for (const line of lines) (index.ts:105): `break` leaves the for loop only.
RECURSIVE ProcessLines(_, _)
ProcessLines(lines, st) ==
    IF lines = <<>> \/ st.broke THEN st
    ELSE ProcessLines(Tail(lines), HandleLine(st, Head(lines)))

\* ------------------------------------------------------------------------
\* createAgent: the streams it may be given
\* ------------------------------------------------------------------------
MaxLines == 3

LineTexts == {IdentA, IdentB, IdentNoTpl, ChunkHello, ChunkPlan, EmptyObj,
              Blank, Garbage, Terminate}

RECURSIVE Wire(_, _)
\* The lines joined by "\n"; the last line is followed by "\n" iff `closed`.
Wire(ls, closed) ==
    IF ls = <<>> THEN <<>>
    ELSE IF Len(ls) = 1 THEN Head(ls) \o (IF closed THEN <<NL>> ELSE <<>>)
    ELSE Head(ls) \o <<NL>> \o Wire(Tail(ls), closed)

\* A line is at most two tokens and a separator.
MaxStreamLen == 3 * MaxLines

\* The stream of one whole creation: identity, one chunk, the sentinel.
EndToEnd(ident) == Wire(<<ident, ChunkHello, Terminate>>, TRUE)

Streams ==
    {Wire(ls, closed) :
        ls \in UNION {[1..n -> LineTexts] : n \in 0..MaxLines},
        closed \in BOOLEAN}
    \cup {EndToEnd(IdentX)}

\* ------------------------------------------------------------------------
\* main and connectWebSocket: values
\* ------------------------------------------------------------------------
\* What createAgent may be called with: nothing, or a build request.
Queries == {"", "todo"}

\* if (!query) return createErrorResponse(..., 400) (controller.ts:50-53)
ServerAccepts(q) == q # ""

\* The response bodies a query can be answered with; an error response
\* has no stream.
Bodies(q) == IF ServerAccepts(q) THEN Streams ELSE {<<>>}

\* index.ts:23-24
API_BASE_URL == "http://localhost:8787"
AuthTokens == {"", "tok"}

SOCKET == "socket"
NoRequest == [url |-> NONE, origin |-> NONE, token |-> NONE]

\* A request that carries the credential whether there is one or not.
TokenParamAlways(tok) == tok

\* if (AUTH_TOKEN) { url.searchParams.set('token', AUTH_TOKEN) }
\* (index.ts:151-153)
TokenParam(tok) == IF tok # "" THEN tok ELSE NONE

\* new WebSocket(wsUrl, { headers: { 'Origin': API_BASE_URL } })
\* (index.ts:150-162)
UpgradeRequest(url, tok) ==
    [url |-> url, origin |-> API_BASE_URL, token |-> TokenParam(tok)]

\* A main that goes on while createAgent is still reading.
CreateNotAwaited == pc \in {"read", "done"}

\* await createAgent(...) has returned (index.ts:493)
CreateReturned == pc = "done"

\* if (!agentId || !websocketUrl) throw ... (index.ts:495-497)
SessionKnown == agentId # NULL /\ websocketUrl # NULL

\* A main that starts over after an error.
AfterFatalRetry == "fetch"

\* process.exit(1) (index.ts:506)
AfterFatal == "exit1"

\* ------------------------------------------------------------------------
\* createAgent: actions
\* ------------------------------------------------------------------------
Init ==
    /\ query \in Queries
    /\ stream \in Bodies(query)
    /\ netCalls = 0
    /\ fatal = NONE
    /\ authToken = ""
    /\ ws = NULL
    /\ readyState = NONE
    /\ wsError = FALSE
    /\ request = NoRequest
    /\ connects = 0
    /\ sent = <<>>
    /\ notConnected = 0
    /\ returned = NONE
    /\ cmds = 0
    /\ lastCmd = NONE
    /\ lastDeploymentUrl = NULL
    /\ noticeLog = 0
    /\ lastNotice = NONE
    /\ parseErrs = 0
    /\ urlShown = NONE
    /\ lastFrame = NoInbound
    /\ completed = NoUrls
    /\ latestDone = NONE
    /\ phaseShown = NoPhases
    /\ phaseFailed = {}
    /\ ServerIdle
    /\ pos = 0
    /\ pc = "fetch"
    /\ buffer = <<>>
    /\ agentId = NULL
    /\ websocketUrl = NULL
    /\ stdout = <<>>
    /\ errs = 0
    /\ acted = <<>>
    /\ seen = <<>>
    /\ parsed = <<>>
    /\ carried = FALSE
    /\ filesMap = NoFiles
    /\ disk = NoFiles
    /\ handlers = {}
    /\ arrived = 0
    /\ script = <<>>
    /\ ended = NoHandler
    /\ nCalls = 0
    /\ lastCall = NoCall
    /\ latest = NoFiles
    /\ ioFailed = FALSE
    /\ written = {}

\* await fetch(...) resolves with an ok response that has a body
\* (index.ts:76-94).
FetchOk ==
    /\ pc = "fetch"
    /\ ServerAccepts(query)
    /\ pc' = "read"
    /\ netCalls' = netCalls + 1
    /\ UNCHANGED <<stream, pos, buffer, agentId, websocketUrl, stdout, errs,
                   acted, seen, parsed, carried, channelVars, query, fatal,
                   wsVars, loopVars,
                   noticeVars, serverVars>>

\* fetch rejects, the status is not ok, or there is no body: the error is
\* logged and rethrown (index.ts:82-89, 135-138); main's catch block
\* reports it and the process exits (index.ts:504-507).
FetchFail ==
    /\ pc = "fetch"
    /\ pc' = AfterFatal
    /\ fatal' = "create"
    /\ netCalls' = netCalls + 1
    /\ UNCHANGED <<stream, pos, buffer, agentId, websocketUrl, stdout, errs,
                   acted, seen, parsed, carried, channelVars, query,
                   wsVars, loopVars,
                   noticeVars, serverVars>>

\* One turn of the while loop in which reader.read() delivers the next n
\* tokens (index.ts:96-134).  Everything after the await is synchronous.
\* decoder.decode(value, { stream: true }) holds back an incomplete
\* character until the next read, so the text grows by whole tokens.
Read(n) ==
    /\ pc = "read"
    /\ pos + n <= Len(stream)
    /\ LET value == SubSeq(stream, pos + 1, pos + n)
           lines == SplitNL(buffer \o value)
           st    == ProcessLines(Complete(lines),
                        LoopState(agentId, websocketUrl, stdout, errs,
                                  acted, seen, parsed))
       IN  /\ buffer' = CarryOver(lines)
           /\ agentId' = st.agentId
           /\ websocketUrl' = st.websocketUrl
           /\ stdout' = st.stdout
           /\ errs' = st.errs
           /\ acted' = st.acted
           /\ seen' = st.seen
           /\ parsed' = st.parsed
           /\ carried' = (carried \/ (CarryOver(lines) # <<>> /\ pos + n < Len(stream)))
    /\ pos' = pos + n
    /\ UNCHANGED <<stream, pc, channelVars, mainVars, wsVars, loopVars,
                   noticeVars, serverVars>>

\* reader.read() reports done: the while loop is left and createAgent
\* returns (index.ts:99).  Whatever is in `buffer` is dropped with it.
ReadDone ==
    /\ pc = "read"
    /\ pos = Len(stream)
    /\ pc' = "done"
    /\ UNCHANGED <<stream, pos, buffer, agentId, websocketUrl, stdout, errs,
                   acted, seen, parsed, carried, channelVars, mainVars,
                   wsVars, loopVars,
                   noticeVars, serverVars>>

\* reader.read() rejects (the connection breaks): logged and rethrown
\* (index.ts:135-138); main's catch block reports it and the process
\* exits (index.ts:504-507).
ReadError ==
    /\ pc = "read"
    /\ pc' = AfterFatal
    /\ fatal' = "create"
    /\ UNCHANGED <<stream, pos, buffer, agentId, websocketUrl, stdout, errs,
                   acted, seen, parsed, carried, channelVars, query, netCalls,
                   wsVars, loopVars,
                   noticeVars, serverVars>>

\* createAgent returned without a session: main throws 'Failed to get agent
\* ID or WebSocket URL', and its catch block exits (index.ts:495-497,
\* 504-507).
SessionMissing ==
    /\ CreateReturned
    /\ ~SessionKnown
    /\ fatal' = "no-session"
    /\ pc' = AfterFatal
    /\ UNCHANGED <<stream, pos, buffer, stdout, errs, acted, seen, parsed,
                   carried, sessionVars, channelVars, query, netCalls,
                   wsVars, loopVars,
                   noticeVars, serverVars>>

\* main calls connectWebSocket, which creates the socket and waits for
\* 'open' or 'error' (index.ts:500, 142-162).
Connect ==
    /\ CreateReturned
    /\ SessionKnown
    /\ ws' = SOCKET
    /\ readyState' = "CONNECTING"
    /\ request' = UpgradeRequest(websocketUrl, authToken)
    /\ connects' = connects + 1
    /\ pc' = "connecting"
    /\ UNCHANGED <<stream, pos, buffer, stdout, errs, acted, seen, parsed,
                   carried, sessionVars, channelVars, mainVars, authToken,
                   wsError, loopVars,
                   noticeVars, serverVars>>

Next ==
    \/ FetchOk
    \/ FetchFail
    \/ \E n \in 1..MaxStreamLen : Read(n)
    \/ ReadDone
    \/ ReadError
    \/ SessionMissing
    \/ Connect

Spec == Init /\ [][Next]_vars

\* ------------------------------------------------------------------------
\* createAgent: properties
\* ------------------------------------------------------------------------
\* The complete (newline-terminated) lines of a stream, and its last,
\* unterminated piece.
CompleteLines(s) == Complete(SplitNL(s))
FinalPiece(s) == SplitNL(s)[Len(SplitNL(s))]

NonBlank(line) == ~IsBlank(line)
IsFrameLine(line) == ~IsBlank(line) /\ ~IsSentinel(line)

\* A creation stream as section 6 of the specification describes it: the
\* sentinel, if present, is the last line that carries anything.
ValidStream(s) ==
    LET ls == CompleteLines(s)
    IN  \A i \in 1..Len(ls) : IsSentinel(ls[i]) =>
            (\A j \in (i + 1)..Len(ls) : IsBlank(ls[j])) /\ IsBlank(FinalPiece(s))

HasSentinel(s) == \E i \in 1..Len(CompleteLines(s)) : IsSentinel(CompleteLines(s)[i])

\* The run of createAgent's loop over the whole stream delivered by one read.
OneRead(s) ==
    ProcessLines(CompleteLines(s), LoopState(NULL, NULL, <<>>, 0, <<>>, <<>>, <<>>))

\* C1: for a valid creation stream, the frames acted on (identity, chunk,
\* sentinel), the session and the forwarded text are the same for every way
\* of cutting the stream into reads: they equal those of a single read.
C1_SplitInvariant ==
    (pc = "done" /\ ValidStream(stream)) =>
        /\ acted = OneRead(stream).acted
        /\ stdout = OneRead(stream).stdout
        /\ agentId = OneRead(stream).agentId
        /\ websocketUrl = OneRead(stream).websocketUrl
        /\ errs = OneRead(stream).errs

\* C1 witness: a valid stream that was cut inside a line, with an identity,
\* a chunk and the sentinel acted on.
C1_Witness ==
    /\ pc = "done"
    /\ ValidStream(stream)
    /\ carried
    /\ acted = <<<<"identity", "a1", "w1">>, <<"chunk", "hello">>, <<"sentinel">>>>

\* The identity frames acted on so far.
IsIdentity(f) == f[1] = "identity"
Identities == SelectSeq(acted, IsIdentity)

\* C7: once an identity frame has set agentId and websocketUrl, they keep
\* the values of that first frame.
C7_SessionIdImmutable ==
    Identities # <<>> =>
        /\ agentId = Identities[1][2]
        /\ websocketUrl = Identities[1][3]

\* C8: when the stream ends, a final line without a newline has been
\* processed like the others: every non-blank line of a sentinel-free
\* stream has been examined.
C8_FlushOnEnd ==
    (pc = "done" /\ ~HasSentinel(stream)) =>
        seen = SelectSeq(SplitNL(stream), NonBlank)

\* C9: the sentinel is never handed to JSON.parse, and it is the last line
\* that is examined: nothing after it is parsed or acted on.
C9_SentinelEndsProcessing ==
    /\ \A i \in 1..Len(parsed) : ~IsSentinel(parsed[i])
    /\ \A i \in 1..Len(seen) : IsSentinel(seen[i]) => i = Len(seen)

\* The frame a well-formed line stands for; <<>> for a line that is
\* malformed or carries neither an identity nor a chunk.
FrameOf(line) ==
    LET d == JSONParse(line)
    IN  IF IsSentinel(line) THEN <<"sentinel">>
        ELSE IF ~d.ok THEN <<>>
        ELSE IF d.agentId # "" /\ d.websocketUrl # "" THEN <<"identity", d.agentId, d.websocketUrl>>
        ELSE IF d.chunk # "" THEN <<"chunk", d.chunk>>
        ELSE <<>>

RECURSIVE FramesOf(_)
FramesOf(ls) ==
    IF ls = <<>> THEN <<>>
    ELSE IF IsBlank(Head(ls)) \/ FrameOf(Head(ls)) = <<>> THEN FramesOf(Tail(ls))
    ELSE <<FrameOf(Head(ls))>> \o FramesOf(Tail(ls))

\* A line whose handling ends in the catch block: it does not parse, or it
\* is an identity frame without a template.
Throws(line) ==
    LET d == JSONParse(line)
    IN  /\ IsFrameLine(line)
        /\ \/ ~d.ok
           \/ d.agentId # "" /\ d.websocketUrl # "" /\ ~d.template

\* C10: a line that fails JSON parsing is skipped and nothing else: when
\* createAgent returns, the frames acted on are exactly the frames of the
\* well-formed complete lines of the (valid) stream, in order, whatever
\* malformed lines lie between them, and each malformed line was logged.
C10_ParseErrorSkipped ==
    (pc = "done" /\ ValidStream(stream)) =>
        /\ acted = FramesOf(CompleteLines(stream))
        /\ errs = Len(SelectSeq(CompleteLines(stream), Throws))

\* C10 witness: createAgent returned after a malformed line that lies
\* between two well-formed chunk lines, both of which were forwarded.
C10_Witness ==
    /\ pc = "done"
    /\ parsed = <<ChunkHello, Garbage, ChunkPlan>>
    /\ stdout = <<"hello", "plan">>
    /\ errs = 1

\* The chunk texts among a sequence of frames, in order.
IsChunkFrame(f) == f[1] = "chunk"
ChunkTexts(fs) ==
    LET cs == SelectSeq(fs, IsChunkFrame)
    IN  [i \in 1..Len(cs) |-> cs[i][2]]

\* The part of the stream that reader.read() has delivered so far.
Delivered == SubSeq(stream, 1, pos)

\* C11: for a valid creation stream, at every moment (between any two
\* reads, and at the end) the texts written to standard output are exactly
\* the chunks of the lines completed by the bytes delivered so far, each
\* once and in arrival order: a chunk is forwarded in the very read that
\* completes its line, before any later read, and is not held back until
\* the stream ends.
C11_ChunksForwardedIncrementally ==
    ValidStream(stream) =>
        stdout = ChunkTexts(FramesOf(CompleteLines(Delivered)))

\* C11 witness: the loop is between two reads, the stream has more bytes to
\* deliver (among them a chunk whose line is not complete yet), and the
\* chunk of the line completed so far has already been written.
C11_Witness ==
    /\ pc = "read"
    /\ stream = Wire(<<ChunkHello, ChunkPlan, Terminate>>, TRUE)
    /\ pos = 4
    /\ buffer = <<ChunkPlan[1]>>
    /\ stdout = <<"hello">>

\* ------------------------------------------------------------------------
\* main: properties
\* ------------------------------------------------------------------------
\* The whole response body was read and createAgent returned.
StreamCompleted ==
    /\ pos = Len(stream)
    /\ pc \notin {"fetch", "read"}
    /\ fatal # "create"

\* C12: end to end, the creation stream made of the identity object for
\* session a1 and channel ws://x, the object {"chunk":"hello"} and the
\* terminate line, however it is cut into reads, yields the session a1 with
\* channel ws://x, exactly one forwarded chunk "hello", a recognised
\* sentinel, no parse error, and no error out of createAgent or main's
\* check of the session.
C12_EndToEnd ==
    (stream = EndToEnd(IdentX) /\ StreamCompleted) =>
        /\ agentId = "a1"
        /\ websocketUrl = "ws://x"
        /\ stdout = <<"hello">>
        /\ acted = <<<<"identity", "a1", "ws://x">>, <<"chunk", "hello">>,
                     <<"sentinel">>>>
        /\ errs = 0
        /\ fatal = NONE

\* C12 witness: that stream was read in several pieces, createAgent
\* returned and main went on to connect the channel of session a1.
C12_Witness ==
    /\ stream = EndToEnd(IdentX)
    /\ carried
    /\ pc = "connecting"
    /\ agentId = "a1"
    /\ request.url = "ws://x"
    /\ stdout = <<"hello">>

\* C13: the creation stream and the channel are never active at the same
\* time: a socket exists only when createAgent has returned, which it does
\* only after reader.read() reported the end of the stream.
C13_StreamThenChannel ==
    (ws # NULL \/ connects > 0) =>
        /\ pc \notin {"fetch", "read"}
        /\ pos = Len(stream)

\* C13 witness: the channel is being connected after a stream of several
\* lines, chunks among them, was read to its end in more than one read.
C13_Witness ==
    /\ pc = "connecting"
    /\ ws = SOCKET
    /\ connects = 1
    /\ carried
    /\ pos = Len(stream)
    /\ stdout = <<"hello", "plan">>

\* C14: a session-creation request with an empty query fails before the
\* client makes any network call.
C14_EmptyQueryNoNetworkCall ==
    query = "" => netCalls = 0

\* Session creation failed: createAgent threw, or it returned and the
\* stream had carried no identity frame.
CreationFailed ==
    \/ fatal # NONE
    \/ pc = "done" /\ ~SessionKnown

\* C15: a failed session creation is fatal and is never retried: fetch is
\* called at most once, after a failure no socket is ever created, and the
\* process ends with the error reported.
C15_FailedCreationFatal ==
    /\ netCalls <= 1
    /\ CreationFailed => (ws = NULL /\ connects = 0 /\ request = NoRequest)
    /\ pc = "exit1" => fatal # NONE
    /\ fatal # NONE => pc = "exit1"

\* C15 witness: the stream ended after a chunk and the sentinel without
\* any identity frame; main reported the missing session and exited, with
\* one fetch made and no socket created.
C15_Witness ==
    /\ pc = "exit1"
    /\ fatal = "no-session"
    /\ stream = Wire(<<ChunkHello, Terminate>>, TRUE)
    /\ stdout = <<"hello">>
    /\ netCalls = 1
    /\ connects = 0

\* ------------------------------------------------------------------------
\* The channel: frames
\* ------------------------------------------------------------------------
MaxFrames == 3
\* Frames are delivered while fewer than this many handlers are suspended.
MaxInFlight == 2

Entry(p, c) == [filePath |-> p, fileContents |-> c]
Entries == {Entry(p, c) : p \in Paths, c \in Contents}

\* A parsed frame.  A field the frame does not carry is NONE (NoFile for
\* the inline file).
NoFile == Entry(NONE, NONE)

Frame(t, es, f, p, c) ==
    [type |-> t, entries |-> es, file |-> f, filePath |-> p, fileContents |-> c]

\* msg.state.generatedFilesMap, in the order Object.entries lists it
\* (index.ts:214): the paths of a snapshot are distinct.
Snapshots ==
    {<<>>} \cup {<<e>> : e \in Entries}
           \cup {es \in [1..2 -> Entries] : es[1].filePath # es[2].filePath}

AgentConnected(es) == Frame("agent_connected", es, NoFile, NONE, NONE)
FileGenerating(p) == Frame("file_generating", <<>>, NoFile, p, NONE)
FileChunk(p, c) == Frame("file_chunk_generated", <<>>, NoFile, p, c)
\* file_generated carries the file inline or as flattened fields.
FileGeneratedInline(e) == Frame("file_generated", <<>>, e, NONE, NONE)
FileGeneratedFlat(e) == Frame("file_generated", <<>>, NoFile, e.filePath, e.fileContents)

Frames ==
    {AgentConnected(es) : es \in Snapshots}
        \cup {FileGenerating(p) : p \in Paths}
        \cup {FileChunk(p, c) : p \in Paths, c \in Contents}
        \cup {FileGeneratedInline(e) : e \in Entries}
        \cup {FileGeneratedFlat(e) : e \in Entries}

\* const file = msg.file || { filePath: msg.filePath!, ... } (index.ts:274-278)
FileOf(msg) ==
    IF msg.file # NoFile THEN msg.file ELSE Entry(msg.filePath, msg.fileContents)

\* The switch of handleWebSocketMessage (index.ts:204-400), as the list of
\* files the handler passes to saveFile, in order: the snapshot's entries for
\* agent_connected (213-216), the one file for file_generated (272-280),
\* nothing for file_generating (256-263) and file_chunk_generated (265-270).
FilesToSaveChunkWrites(msg) ==
    CASE msg.type = "agent_connected" -> msg.entries
      [] msg.type = "file_generated" -> <<FileOf(msg)>>
      [] msg.type = "file_chunk_generated" -> <<Entry(msg.filePath, msg.fileContents)>>
      [] OTHER -> <<>>
FilesToSave(msg) ==
    CASE msg.type = "agent_connected" -> msg.entries
      [] msg.type = "file_generated" -> <<FileOf(msg)>>
      [] OTHER -> <<>>

\* ------------------------------------------------------------------------
\* The channel: handlers and saveFile
\* ------------------------------------------------------------------------
\* A suspended handler: the frame's number, its type, the files it saves, the
\* index of the file whose saveFile call is in flight, the await that call is
\* at ("mkdir": index.ts:48, "open" and "write": index.ts:49) and whether
\* its writeFile has overlapped with another one on the same path.
Handler(k, t, es, i, st, r) ==
    [k |-> k, type |-> t, entries |-> es, idx |-> i, stage |-> st, raced |-> r]

Current(h) == h.entries[h.idx]

\* How a handler call ended: it returned (ok) or it rejected.
Outcome(k, ok) == [k |-> k, ok |-> ok]

RECURSIVE Carried(_, _)
\* `latest` after a frame that carries the files es.
Carried(es, m) ==
    IF es = <<>> THEN m
    ELSE Carried(Tail(es), [m EXCEPT ![Head(es).filePath] = Head(es).fileContents])

\* ws.on('message') (index.ts:179-186) for a frame that parses, and the part
\* of handleWebSocketMessage that runs before its first await: the handler is
\* called and not awaited.  saveFile returns at once when agentId is not set
\* (index.ts:43); otherwise the first file's mkdir is started.
Deliver(msg) ==
    LET k  == arrived + 1
        es == FilesToSave(msg)
    IN  /\ arrived' = k
        /\ latest' = Carried(es, latest)
        /\ IF es = <<>> \/ agentId = NULL
           THEN /\ ended' = Outcome(k, TRUE)
                /\ nCalls' = nCalls + Len(es)
                /\ lastCall' = IF es = <<>> THEN lastCall
                               ELSE <<es[Len(es)].filePath, es[Len(es)].fileContents>>
                /\ UNCHANGED handlers
           ELSE /\ handlers' = handlers \cup {Handler(k, msg.type, es, 1, "mkdir", FALSE)}
                /\ nCalls' = nCalls + 1
                /\ lastCall' = <<es[1].filePath, es[1].fileContents>>
                /\ UNCHANGED ended
        /\ UNCHANGED <<filesMap, disk, script, ioFailed, createVars, sessionVars,
                   mainVars, wsVars, loopVars, written,
                   noticeVars, serverVars>>

\* await mkdir(dir, { recursive: true }) resolves; writeFile is called
\* (index.ts:48-49).
MkdirOk(h) ==
    /\ h \in handlers
    /\ h.stage = "mkdir"
    /\ handlers' = (handlers \ {h}) \cup {[h EXCEPT !.stage = "open"]}
    /\ UNCHANGED <<filesMap, disk, arrived, script, ended, nCalls, lastCall,
                   latest, ioFailed, createVars, sessionVars,
                   mainVars, wsVars, loopVars, written,
                   noticeVars, serverVars>>

\* The rejection of an awaited call leaves saveFile and the handler; nothing
\* catches it (index.ts:182, 215, 280).
Reject(h) ==
    /\ handlers' = handlers \ {h}
    /\ ended' = Outcome(h.k, FALSE)
    /\ ioFailed' = TRUE

\* await mkdir(...) rejects.
MkdirFail(h) ==
    /\ h \in handlers
    /\ h.stage = "mkdir"
    /\ Reject(h)
    /\ UNCHANGED <<filesMap, disk, arrived, script, nCalls, lastCall, latest,
                   createVars, sessionVars,
                   mainVars, wsVars, loopVars, written,
                   noticeVars, serverVars>>

\* The handlers whose writeFile is writing other contents into the file
\* that h's writeFile is about to open.
SamePathWriters(h) ==
    {g \in handlers : g # h /\ g.stage = "write"
                      /\ Current(g).filePath = Current(h).filePath
                      /\ Current(g).fileContents # Current(h).fileContents}

\* writeFile opens the file for writing, which empties it (index.ts:49).
OpenOk(h) ==
    /\ h \in handlers
    /\ h.stage = "open"
    /\ disk' = [disk EXCEPT ![Current(h).filePath] = TRUNCATED]
    /\ written' = written \cup {OutputPath(agentId, Current(h).filePath)}
    /\ handlers' =
          {g \in handlers : g # h /\ g \notin SamePathWriters(h)}
             \cup {[g EXCEPT !.raced = TRUE] : g \in SamePathWriters(h)}
             \cup {[h EXCEPT !.stage = "write", !.raced = SamePathWriters(h) # {}]}
    /\ UNCHANGED <<filesMap, arrived, script, ended, nCalls, lastCall, latest,
                   ioFailed, createVars, sessionVars,
                   mainVars, wsVars, loopVars,
                   noticeVars, serverVars>>

\* A saveFile that enters the file in the map although writeFile rejected.
WriteFailSetsMap(h) ==
    /\ h \in handlers
    /\ h.stage \in {"open", "write"}
    /\ Reject(h)
    /\ filesMap' = [filesMap EXCEPT ![Current(h).filePath] = Current(h).fileContents]
    /\ UNCHANGED <<disk, arrived, script, nCalls, lastCall, latest,
                   createVars, sessionVars,
                   mainVars, wsVars, loopVars, written,
                   noticeVars, serverVars>>

\* await writeFile(...) rejects, before or after the file was opened.
WriteFail(h) ==
    /\ h \in handlers
    /\ h.stage \in {"open", "write"}
    /\ Reject(h)
    /\ UNCHANGED <<filesMap, disk, arrived, script, nCalls, lastCall, latest,
                   createVars, sessionVars,
                   mainVars, wsVars, loopVars, written,
                   noticeVars, serverVars>>

\* await writeFile(...) resolves: the file holds the contents (or a mixture,
\* when another writeFile wrote into it as well), filesMap is set
\* (index.ts:51), saveFile returns and the handler goes on to its next file
\* (index.ts:214) or returns.
WriteOk(h) ==
    /\ h \in handlers
    /\ h.stage = "write"
    /\ \E c \in {Current(h).fileContents} \cup (IF h.raced THEN {MIXED} ELSE {}) :
           disk' = [disk EXCEPT ![Current(h).filePath] = c]
    /\ filesMap' = [filesMap EXCEPT ![Current(h).filePath] = Current(h).fileContents]
    /\ IF h.idx < Len(h.entries)
       THEN /\ handlers' = (handlers \ {h}) \cup
                    {Handler(h.k, h.type, h.entries, h.idx + 1, "mkdir", FALSE)}
            /\ nCalls' = nCalls + 1
            /\ lastCall' = <<h.entries[h.idx + 1].filePath, h.entries[h.idx + 1].fileContents>>
            /\ UNCHANGED ended
       ELSE /\ handlers' = handlers \ {h}
            /\ ended' = Outcome(h.k, TRUE)
            /\ UNCHANGED <<nCalls, lastCall>>
    /\ UNCHANGED <<arrived, script, latest, ioFailed, createVars, sessionVars,
                   mainVars, wsVars, loopVars, written,
                   noticeVars, serverVars>>

\* The state frames arrive in: createAgent has returned with agentId and
\* websocketUrl set, connectWebSocket has resolved and commandLoop is
\* waiting for a command (index.ts:493-501).
Connected ==
    /\ stream = Wire(<<IdentA>>, TRUE)
    /\ pos = Len(stream)
    /\ pc = "loop"
    /\ buffer = <<>>
    /\ agentId = "a1"
    /\ websocketUrl = "w1"
    /\ stdout = <<>>
    /\ errs = 0
    /\ acted = <<<<"identity", "a1", "w1">>>>
    /\ seen = <<IdentA>>
    /\ parsed = <<IdentA>>
    /\ carried = FALSE
    /\ filesMap = NoFiles
    /\ disk = NoFiles
    /\ handlers = {}
    /\ arrived = 0
    /\ ended = NoHandler
    /\ nCalls = 0
    /\ lastCall = NoCall
    /\ latest = NoFiles
    /\ ioFailed = FALSE
    /\ written = {}
    /\ query = "todo"
    /\ netCalls = 1
    /\ fatal = NONE
    /\ authToken = ""
    /\ ws = SOCKET
    /\ readyState = "OPEN"
    /\ wsError = FALSE
    /\ request = UpgradeRequest("w1", "")
    /\ connects = 1
    /\ sent = <<>>
    /\ notConnected = 0
    /\ returned = NONE
    /\ cmds = 0
    /\ lastCmd = NONE
    /\ lastDeploymentUrl = NULL
    /\ noticeLog = 0
    /\ lastNotice = NONE
    /\ parseErrs = 0
    /\ urlShown = NONE
    /\ lastFrame = NoInbound
    /\ completed = NoUrls
    /\ latestDone = NONE
    /\ phaseShown = NoPhases
    /\ phaseFailed = {}
    /\ ServerIdle

InitChannel ==
    /\ Connected
    /\ script = <<>>

\* The server sends any frame at any time.
Receive ==
    /\ arrived < MaxFrames
    /\ Cardinality(handlers) < MaxInFlight
    /\ \E msg \in Frames : Deliver(msg)

NextChannel ==
    \/ Receive
    \/ \E h \in handlers : MkdirOk(h)
    \/ \E h \in handlers : MkdirFail(h)
    \/ \E h \in handlers : OpenOk(h)
    \/ \E h \in handlers : WriteFail(h)
    \/ \E h \in handlers : WriteOk(h)

SpecChannel == InitChannel /\ [][NextChannel]_vars

\* A file_generating, two file_chunk_generated and one file_generated frame
\* for one path, with any contents, the file inline or flattened.
FileSeqScripts ==
    {<<FileGenerating(e.filePath), FileChunk(e.filePath, c1),
       FileChunk(e.filePath, c2),
       IF inline THEN FileGeneratedInline(e) ELSE FileGeneratedFlat(e)>> :
        e \in Entries, c1 \in Contents, c2 \in Contents, inline \in BOOLEAN}

InitFileSeq ==
    /\ Connected
    /\ script \in FileSeqScripts

\* The server sends the next frame of the script.
Play ==
    /\ arrived < Len(script)
    /\ Deliver(script[arrived + 1])

NextFileSeq ==
    \/ Play
    \/ \E h \in handlers : MkdirOk(h)
    \/ \E h \in handlers : MkdirFail(h)
    \/ \E h \in handlers : OpenOk(h)
    \/ \E h \in handlers : WriteFail(h)
    \/ \E h \in handlers : WriteOk(h)

SpecFileSeq == InitFileSeq /\ [][NextFileSeq]_vars

\* ------------------------------------------------------------------------
\* The channel: properties
\* ------------------------------------------------------------------------
\* C2: frames are handled strictly in arrival order: while the handler of a
\* frame still has effects to come (it is suspended inside saveFile), no
\* handler of another frame has started.
C2_StrictArrivalOrder ==
    \A g \in handlers : \A h \in handlers : g.k = h.k

\* C3: last write wins: once every frame has been fully handled (and no
\* write has failed), the file map and the disk hold, for each path, the
\* contents carried by the frame that arrived last for that path.
C3_LastWriteWins ==
    (handlers = {} /\ ~ioFailed) =>
        \A p \in Paths : latest[p] # ABSENT =>
            filesMap[p] = latest[p] /\ disk[p] = latest[p]

\* C4: of the frames file_generating, file_chunk_generated,
\* file_chunk_generated, file_generated for one path, the first three cause
\* no saveFile call and leave the file map and the disk as they were; the
\* fourth causes exactly one call, with its own path and contents.
C4_OneWritePerFile ==
    /\ arrived < Len(script) =>
          /\ nCalls = 0
          /\ lastCall = NoCall
          /\ handlers = {}
          /\ filesMap = NoFiles
          /\ disk = NoFiles
    /\ (script # <<>> /\ arrived = Len(script)) =>
          /\ nCalls = 1
          /\ lastCall = <<FileOf(script[Len(script)]).filePath,
                          FileOf(script[Len(script)]).fileContents>>
          /\ \A h \in handlers : h.k = Len(script) /\ h.idx = 1 /\ Len(h.entries) = 1

\* C4 witness: the four frames have been handled, the chunks carried B and
\* the file_generated frame A, and A is what was saved.
C4_Witness ==
    /\ script # <<>>
    /\ arrived = Len(script)
    /\ handlers = {}
    /\ ended = Outcome(4, TRUE)
    /\ script[2].fileContents = "B"
    /\ script[3].fileContents = "B"
    /\ lastCall = <<"p1", "A">>
    /\ filesMap["p1"] = "A"
    /\ disk["p1"] = "A"

\* The handler call h ends in this step (it returns or rejects).
Ends(h) == h \in handlers /\ ended' # ended /\ ended'.k = h.k

\* C5: a connection-sync frame with N entries causes exactly N saveFile
\* calls: when its handler ends, it has called saveFile for every entry.
C5_SyncSavesEveryEntry ==
    [][\A h \in handlers :
          (h.type = "agent_connected" /\ Ends(h)) => h.idx = Len(h.entries)]_vars

\* The file map that holds exactly the entries es.
MapOf(es) == Carried(es, NoFiles)

\* C6: when a connection-sync frame has been fully handled, the file map
\* equals the snapshot: the same paths with the same contents, nothing else.
C6_SyncReplacesMap ==
    [][\A h \in handlers :
          (h.type = "agent_connected" /\ Ends(h) /\ ended'.ok)
              => filesMap' = MapOf(h.entries)]_vars

\* C19: artifact writes are atomic for readers: at every moment every file
\* holds either nothing yet or the complete contents of some frame, never
\* an emptied or partly written file.
C19_AtomicWrites ==
    \A p \in Paths : disk[p] \in Contents \cup {ABSENT}

\* A handler call rejects in this step.
Rejects == ended' # ended /\ ~ended'.ok

\* C21: the file map gets (or changes) the entry of a path only in the step
\* in which a writeFile of that path, with those contents, resolves; a step
\* in which mkdir or writeFile rejects leaves the file map unchanged.
C21_MapSetAfterWrite ==
    [][/\ \A p \in Paths : filesMap'[p] # filesMap[p] =>
              /\ ~Rejects
              /\ \E h \in handlers :
                    /\ h.stage = "write"
                    /\ Current(h) = Entry(p, filesMap'[p])
                    /\ h \notin handlers'
                    /\ disk'[p] \notin {ABSENT, TRUNCATED}
       /\ Rejects => filesMap' = filesMap]_vars

\* C21 witness: a connection-sync with the entries p1 and p2 has ended by
\* a failed writeFile of p2, after p1 was written: the map holds p1 and
\* has no entry for p2, whose file was opened and left empty.
C21_Witness ==
    /\ ~ended.ok
    /\ ioFailed
    /\ handlers = {}
    /\ filesMap["p1"] = "A"
    /\ filesMap["p2"] = ABSENT
    /\ latest["p2"] = "B"
    /\ disk["p2"] = TRUNCATED

\* C22: a failed artifact write is handled inside the frame handler: no
\* call of handleWebSocketMessage ever ends by rejecting.  (The listener
\* neither awaits the call nor attaches a handler to its promise, so a call
\* that rejects is an unhandled rejection.)
C22_WriteFailureHandled ==
    [][~Rejects]_vars

\* C35: in a connection-sync with several entries, a failed write of one
\* entry does not keep the other entries out of the file map: when the
\* sync's handler ends by the failure of one entry's mkdir or writeFile,
\* every other entry of the snapshot has an entry in the file map.
C35_FailureIsolated ==
    [][\A h \in handlers :
          (h.type = "agent_connected" /\ Ends(h) /\ Rejects) =>
              \A i \in 1..Len(h.entries) :
                  i # h.idx => filesMap'[h.entries[i].filePath] # ABSENT]_vars

\* ------------------------------------------------------------------------
\* Scenario: file frames with arbitrary file names
\* ------------------------------------------------------------------------
\* One or two file_generated frames, each for any file name.
PathScripts ==
    {<<FileGeneratedInline(Entry(p, c))>> : p \in AllPaths, c \in Contents}
    \cup {<<FileGeneratedInline(Entry(p, c)), FileGeneratedFlat(Entry(q, d))>> :
             p \in AllPaths, c \in Contents, q \in AllPaths, d \in Contents}

InitPath ==
    /\ Connected
    /\ script \in PathScripts

SpecPath == InitPath /\ [][NextFileSeq]_vars

\* The directory of the session: <root>/<sessionId>.
SessionRoot == OUTPUT_DIR \o <<agentId>>

IsUnder(dir, path) ==
    /\ Len(path) > Len(dir)
    /\ SubSeq(path, 1, Len(dir)) = dir

\* C20: every file that is written lies under <root>/<sessionId>/: a file
\* name with ".." segments that would leave that directory is refused or
\* brought back into it.
C20_PathConfinement ==
    \A w \in written : IsUnder(SessionRoot, w)

\* ------------------------------------------------------------------------
\* The channel: frames that save no file
\* ------------------------------------------------------------------------
\* A field a frame does not carry reads as undefined (NONE); a field may
\* also carry the empty string.  Both, and null, are falsy.
Truthy(v) == v \notin {NONE, NULL, ""}

\* a || b
Or(a, b) == IF Truthy(a) THEN a ELSE b

DeploymentCompleted(d, pU, pu) ==
    [type |-> "deployment_completed", deployedUrl |-> d, previewURL |-> pU,
     previewUrl |-> pu]
CloudflareCompleted(d, w) ==
    [type |-> "cloudflare_deployment_completed", deploymentUrl |-> d,
     workersUrl |-> w]
PhaseFrame(t, n) == [type |-> t, phaseNumber |-> n]

CompletionFrames ==
    {DeploymentCompleted(d, pU, pu) :
        d \in {NONE, "u1"}, pU \in {NONE, "", "u2"}, pu \in {NONE, "u3"}}
    \cup {CloudflareCompleted(d, w) : d \in {NONE, "", "u4"}, w \in {NONE, "u5"}}

FailureTypes == {"deployment_failed", "cloudflare_deployment_error"}
FailureFrames == {Plain(t) : t \in FailureTypes}

ErrorTypes == {"error", "rate_limit_error"}
ErrorFrames == {Plain(t) : t \in ErrorTypes}

PhaseTypes == {"phase_generating", "phase_implementing", "phase_validating",
               "phase_generated", "phase_implemented", "phase_validated",
               "phase_failed"}
PhaseFrames == {PhaseFrame(t, n) : t \in PhaseTypes, n \in PhaseNumbers}

\* The case labels of the switch (index.ts:204-395).
KnownTypes ==
    {"agent_connected", "generation_started", "generation_complete",
     "generation_stopped", "generation_resumed", "file_generating",
     "file_chunk_generated", "file_generated", "deployment_started",
     "deployment_completed", "deployment_failed",
     "cloudflare_deployment_started", "cloudflare_deployment_completed",
     "cloudflare_deployment_error", "conversation_response",
     "conversation_state"} \cup PhaseTypes \cup ErrorTypes

\* A frame of a kind the client does not know.
UnknownFrame == Plain("telemetry")

\* A chain that asks for previewUrl before previewURL.
DeployedUrlOfLowerFirst(msg) ==
    Or(Or(msg.deployedUrl, msg.previewUrl), msg.previewURL)

\* const url = msg.deployedUrl || msg.previewURL || msg.previewUrl
\* (index.ts:299)
DeployedUrlOf(msg) ==
    Or(Or(msg.deployedUrl, msg.previewURL), msg.previewUrl)

\* const url = msg.deploymentUrl || msg.workersUrl (index.ts:344)
CloudflareUrlOf(msg) == Or(msg.deploymentUrl, msg.workersUrl)

\* What a handler call works on: lastDeploymentUrl, the socket's readyState,
\* the notice it logs, and whether it returns (ok) or throws.
HandlerState(u, rs) == [url |-> u, readyState |-> rs, notice |-> NONE, ok |-> TRUE]

\* A switch that stores a URL only while none is stored.
EffectKeepsFirstUrl(msg, st) ==
    CASE msg.type = "deployment_completed" ->
            [st EXCEPT !.url = IF Truthy(@) THEN @ ELSE Or(DeployedUrlOf(msg), NULL),
                       !.notice = msg.type]
      [] msg.type = "cloudflare_deployment_completed" ->
            [st EXCEPT !.url = IF Truthy(@) THEN @ ELSE Or(CloudflareUrlOf(msg), NULL),
                       !.notice = msg.type]
      [] msg.type \in KnownTypes -> [st EXCEPT !.notice = msg.type]
      [] OTHER -> [st EXCEPT !.notice = "unknown"]

\* A switch that forgets the stored URL when a deployment fails.
EffectFailureClearsUrl(msg, st) ==
    CASE msg.type = "deployment_completed" ->
            [st EXCEPT !.url = Or(DeployedUrlOf(msg), NULL), !.notice = msg.type]
      [] msg.type = "cloudflare_deployment_completed" ->
            [st EXCEPT !.url = Or(CloudflareUrlOf(msg), NULL), !.notice = msg.type]
      [] msg.type \in FailureTypes -> [st EXCEPT !.url = NULL, !.notice = msg.type]
      [] msg.type \in KnownTypes -> [st EXCEPT !.notice = msg.type]
      [] OTHER -> [st EXCEPT !.notice = "unknown"]

\* A switch whose default branch throws.
EffectUnknownThrows(msg, st) ==
    CASE msg.type = "deployment_completed" ->
            [st EXCEPT !.url = Or(DeployedUrlOf(msg), NULL), !.notice = msg.type]
      [] msg.type = "cloudflare_deployment_completed" ->
            [st EXCEPT !.url = Or(CloudflareUrlOf(msg), NULL), !.notice = msg.type]
      [] msg.type \in KnownTypes -> [st EXCEPT !.notice = msg.type]
      [] OTHER -> [st EXCEPT !.ok = FALSE]

\* A switch that closes the socket when an error frame arrives.
EffectErrorCloses(msg, st) ==
    CASE msg.type = "deployment_completed" ->
            [st EXCEPT !.url = Or(DeployedUrlOf(msg), NULL), !.notice = msg.type]
      [] msg.type = "cloudflare_deployment_completed" ->
            [st EXCEPT !.url = Or(CloudflareUrlOf(msg), NULL), !.notice = msg.type]
      [] msg.type \in ErrorTypes ->
            [st EXCEPT !.readyState = "CLOSING", !.notice = msg.type]
      [] msg.type \in KnownTypes -> [st EXCEPT !.notice = msg.type]
      [] OTHER -> [st EXCEPT !.notice = "unknown"]

\* A switch that keeps the stored URL when a completion frame carries none.
EffectKeepsUrlWhenEmpty(msg, st) ==
    CASE msg.type = "deployment_completed" ->
            [st EXCEPT !.url = Or(DeployedUrlOf(msg), @), !.notice = msg.type]
      [] msg.type = "cloudflare_deployment_completed" ->
            [st EXCEPT !.url = Or(CloudflareUrlOf(msg), @), !.notice = msg.type]
      [] msg.type \in KnownTypes -> [st EXCEPT !.notice = msg.type]
      [] OTHER -> [st EXCEPT !.notice = "unknown"]

\* The switch of handleWebSocketMessage (index.ts:204-400) for a frame that
\* saves no file.  The two completion cases store the frame's URL, or null
\* when it has none (index.ts:297-305, 342-347); every other case only logs
\* (index.ts:220-254, 287-295, 328-340, 360-395); the default branch logs
\* the frame (index.ts:397-399).  No branch throws, none touches the socket.
Effect(msg, st) ==
    CASE msg.type = "deployment_completed" ->
            [st EXCEPT !.url = Or(DeployedUrlOf(msg), NULL), !.notice = msg.type]
      [] msg.type = "cloudflare_deployment_completed" ->
            [st EXCEPT !.url = Or(CloudflareUrlOf(msg), NULL), !.notice = msg.type]
      [] msg.type \in KnownTypes -> [st EXCEPT !.notice = msg.type]
      [] OTHER -> [st EXCEPT !.notice = "unknown"]

\* What /url prints (index.ts:438-443).
NO_URL == "No deployment URL available yet"
UrlReport(u) == IF Truthy(u) THEN u ELSE NO_URL

\* ------------------------------------------------------------------------
\* The session: connectWebSocket, the socket's events, commandLoop
\* ------------------------------------------------------------------------
\* commandLoop reads at most this many commands.
MaxCommands == 3

\* The frame a command makes commandLoop pass to sendMessage
\* (index.ts:430-458); NoFrame for a command that sends nothing.
OutFrame(t, m) == [type |-> t, message |-> m]
NoFrame == OutFrame(NONE, NONE)

\* A commandLoop that sends the preview request for /deploy.
FrameForDeployAsPreview(cmd) ==
    CASE cmd = "/generate" -> OutFrame("generate_all", NONE)
      [] cmd = "/preview"  -> OutFrame("preview", NONE)
      [] cmd = "/deploy"   -> OutFrame("preview", NONE)
      [] cmd = "/stop"     -> OutFrame("stop_generation", NONE)
      [] cmd = "/state"    -> OutFrame("get_conversation_state", NONE)
      [] cmd = "/clear"    -> OutFrame("clear_conversation", NONE)
      [] cmd = "/chat hi"  -> OutFrame("user_suggestion", "hi")
      [] OTHER             -> NoFrame

\* The frame commandLoop hands to sendMessage for a command
\* (index.ts:429-456).
FrameFor(cmd) ==
    CASE cmd = "/generate" -> OutFrame("generate_all", NONE)
      [] cmd = "/preview"  -> OutFrame("preview", NONE)
      [] cmd = "/deploy"   -> OutFrame("deploy", NONE)
      [] cmd = "/stop"     -> OutFrame("stop_generation", NONE)
      [] cmd = "/state"    -> OutFrame("get_conversation_state", NONE)
      [] cmd = "/clear"    -> OutFrame("clear_conversation", NONE)
      [] cmd = "/chat hi"  -> OutFrame("user_suggestion", "hi")
      [] OTHER             -> NoFrame

SendCommands == {"/generate", "/preview", "/deploy", "/stop", "/state",
                 "/clear", "/chat hi"}
\* The commands that send nothing: show the URL, an unknown command, an
\* empty line.
LocalCommands == {"/url", "/bogus", ""}

\* A sendMessage that asks only whether there is a socket.
CanSendAnySocket == ws # NULL

\* The negation of  !ws || ws.readyState !== WebSocket.OPEN  (index.ts:405)
CanSend == ws # NULL /\ readyState = "OPEN"

\* What sendMessage gives back to its caller: it is declared void and
\* both of its branches return nothing (index.ts:404-411).
VOID == "undefined"

\* A 'close' listener that connects again.
OnCloseReconnect(n) ==
    [ws |-> SOCKET, readyState |-> "CONNECTING", connects |-> n + 1]

\* ws.on('close', () => { ...; ws = null }) (index.ts:193-196), run when
\* the socket has reached CLOSED.
OnClose(n) == [ws |-> NULL, readyState |-> "CLOSED", connects |-> n]

\* createAgent has returned with the session a1 / w1; main has not yet
\* called connectWebSocket.  AUTH_TOKEN is empty or set.
InitSession ==
    /\ stream = Wire(<<IdentA>>, TRUE)
    /\ pos = Len(stream)
    /\ pc = "done"
    /\ buffer = <<>>
    /\ agentId = "a1"
    /\ websocketUrl = "w1"
    /\ stdout = <<>>
    /\ errs = 0
    /\ acted = <<<<"identity", "a1", "w1">>>>
    /\ seen = <<IdentA>>
    /\ parsed = <<IdentA>>
    /\ carried = FALSE
    /\ filesMap = NoFiles
    /\ disk = NoFiles
    /\ handlers = {}
    /\ arrived = 0
    /\ script = <<>>
    /\ ended = NoHandler
    /\ nCalls = 0
    /\ lastCall = NoCall
    /\ latest = NoFiles
    /\ ioFailed = FALSE
    /\ written = {}
    /\ query = "todo"
    /\ netCalls = 1
    /\ fatal = NONE
    /\ authToken \in AuthTokens
    /\ ws = NULL
    /\ readyState = NONE
    /\ wsError = FALSE
    /\ request = NoRequest
    /\ connects = 0
    /\ sent = <<>>
    /\ notConnected = 0
    /\ returned = NONE
    /\ cmds = 0
    /\ lastCmd = NONE
    /\ lastDeploymentUrl = NULL
    /\ noticeLog = 0
    /\ lastNotice = NONE
    /\ parseErrs = 0
    /\ urlShown = NONE
    /\ lastFrame = NoInbound
    /\ completed = NoUrls
    /\ latestDone = NONE
    /\ phaseShown = NoPhases
    /\ phaseFailed = {}
    /\ ServerIdle

\* The handshake succeeds: the socket is OPEN, the 'open' listener resolves
\* the promise and main enters commandLoop (index.ts:164-177, 500-503).
OpenEvent ==
    /\ pc = "connecting"
    /\ readyState = "CONNECTING"
    /\ readyState' = "OPEN"
    /\ pc' = "loop"
    /\ UNCHANGED <<stream, pos, buffer, stdout, errs, acted, seen, parsed,
                   carried, sessionVars, channelVars, mainVars, authToken,
                   ws, wsError, request, connects, loopVars,
                   noticeVars, serverVars>>

\* The handshake fails: the socket leaves CONNECTING and emits 'error';
\* the listener rejects the promise, main's catch block reports the error
\* and the process exits (index.ts:188-191, 504-507).
ErrorConnecting ==
    /\ pc = "connecting"
    /\ readyState = "CONNECTING"
    /\ readyState' = "CLOSING"
    /\ wsError' = TRUE
    /\ fatal' = "connect"
    /\ pc' = AfterFatal
    /\ UNCHANGED <<stream, pos, buffer, stdout, errs, acted, seen, parsed,
                   carried, sessionVars, channelVars, query, netCalls,
                   authToken, ws, request, connects, loopVars,
                   noticeVars, serverVars>>

\* The open socket fails: it starts closing and emits 'error'; the listener
\* logs, and its reject has no effect on the promise that 'open' resolved
\* (index.ts:188-191).
ErrorOpen ==
    /\ pc = "loop"
    /\ readyState = "OPEN"
    /\ readyState' = "CLOSING"
    /\ wsError' = TRUE
    /\ UNCHANGED <<createVars, sessionVars, channelVars, mainVars, authToken,
                   ws, request, connects, loopVars,
                   noticeVars, serverVars>>

\* The server closes the connection, or the connection is lost: the socket
\* starts closing.
PeerClose ==
    /\ pc = "loop"
    /\ readyState = "OPEN"
    /\ readyState' = "CLOSING"
    /\ UNCHANGED <<createVars, sessionVars, channelVars, mainVars, authToken,
                   ws, wsError, request, connects, loopVars,
                   noticeVars, serverVars>>

\* The closing socket is closed and emits 'close' (index.ts:193-196).
CloseEvent ==
    /\ pc = "loop"
    /\ readyState = "CLOSING"
    /\ ws' = OnClose(connects).ws
    /\ readyState' = OnClose(connects).readyState
    /\ connects' = OnClose(connects).connects
    /\ UNCHANGED <<createVars, sessionVars, channelVars, mainVars, authToken,
                   wsError, request, loopVars,
                   noticeVars, serverVars>>

\* commandLoop reads a command that calls sendMessage (index.ts:430-458,
\* 404-411).
SendCommand(cmd) ==
    /\ pc = "loop"
    /\ cmds < MaxCommands
    /\ cmds' = cmds + 1
    /\ lastCmd' = cmd
    /\ IF CanSend
       THEN /\ sent' = Append(sent, FrameFor(cmd))
            /\ UNCHANGED notConnected
       ELSE /\ notConnected' = notConnected + 1
            /\ UNCHANGED sent
    /\ returned' = VOID
    /\ UNCHANGED <<createVars, sessionVars, channelVars, mainVars, wsVars,
                   noticeVars, serverVars>>

\* commandLoop reads a command that sends nothing: an empty line, /url,
\* an unknown command (index.ts:423, 438-443, 459-462).
LocalCommand(cmd) ==
    /\ pc = "loop"
    /\ cmds < MaxCommands
    /\ cmds' = cmds + 1
    /\ lastCmd' = cmd
    /\ urlShown' = IF cmd = "/url" THEN UrlReport(lastDeploymentUrl) ELSE urlShown
    /\ UNCHANGED <<createVars, sessionVars, channelVars, mainVars, wsVars,
                   sent, notConnected, returned, lastDeploymentUrl, noticeLog,
                   lastNotice, parseErrs, lastFrame, completed, latestDone,
                   phaseShown, phaseFailed, serverVars>>

\* commandLoop reads /exit: ws?.close(); process.exit(0) (index.ts:425-428).
ExitCommand ==
    /\ pc = "loop"
    /\ cmds < MaxCommands
    /\ cmds' = cmds + 1
    /\ lastCmd' = "/exit"
    /\ readyState' = IF ws # NULL /\ readyState = "OPEN" THEN "CLOSING"
                     ELSE readyState
    /\ pc' = "exit0"
    /\ UNCHANGED <<stream, pos, buffer, stdout, errs, acted, seen, parsed,
                   carried, sessionVars, channelVars, mainVars, authToken,
                   ws, wsError, request, connects, sent, notConnected,
                   returned,
                   noticeVars, serverVars>>

NextSession ==
    \/ Connect
    \/ OpenEvent
    \/ ErrorConnecting
    \/ ErrorOpen
    \/ PeerClose
    \/ CloseEvent
    \/ \E cmd \in SendCommands : SendCommand(cmd)
    \/ \E cmd \in LocalCommands : LocalCommand(cmd)
    \/ ExitCommand

SpecSession == InitSession /\ [][NextSession]_vars

\* ------------------------------------------------------------------------
\* The session: properties
\* ------------------------------------------------------------------------
\* The state of the channel in the terms of section 4.2 of the
\* specification, from the number of sockets created, whether the socket
\* has emitted 'error', and its readyState.
ChannelState(n, err, rs) ==
    IF n = 0 THEN "NoChannel"
    ELSE IF err THEN "Errored"
    ELSE CASE rs = "CONNECTING" -> "Connecting"
           [] rs = "OPEN"       -> "Open"
           [] rs = "CLOSING"    -> "Closing"
           [] rs = "CLOSED"     -> "Closed"

ChannelTransitions ==
    {<<"NoChannel", "Connecting">>, <<"Connecting", "Open">>,
     <<"Open", "Closing">>, <<"Closing", "Closed">>,
     <<"Connecting", "Errored">>, <<"Open", "Errored">>}

\* C16: the channel changes state only along Connecting -> Open -> Closing
\* -> Closed, or from Connecting or Open to Errored, which it never leaves;
\* once it is Closed or Errored no socket is created, no upgrade request is
\* sent and no frame is transmitted any more.
C16_ChannelLifecycle ==
    [][LET before == ChannelState(connects, wsError, readyState)
           after  == ChannelState(connects', wsError', readyState')
       IN  /\ before # after => <<before, after>> \in ChannelTransitions
           /\ before \in {"Closed", "Errored"} =>
                 /\ connects' = connects
                 /\ request' = request
                 /\ sent' = sent]_vars

\* C16 witness: the channel was opened, carried a frame, failed, and was
\* then closed; a command entered after that was not transmitted, and
\* there has been one socket only.
C16_Witness ==
    /\ ChannelState(connects, wsError, readyState) = "Errored"
    /\ readyState = "CLOSED"
    /\ ws = NULL
    /\ connects = 1
    /\ Len(sent) = 1
    /\ notConnected = 1
    /\ cmds = 2

\* A step in which commandLoop called sendMessage while the channel was
\* not open.
SendWhileNotOpen ==
    /\ cmds' = cmds + 1
    /\ lastCmd' \in SendCommands
    /\ ~(ws # NULL /\ readyState = "OPEN")

\* The channel and the local session state, but for the log.
C17_Untouched ==
    /\ UNCHANGED <<ws, readyState, wsError, request, connects, authToken>>
    /\ UNCHANGED <<sessionVars, channelVars, createVars, mainVars>>

NOT_CONNECTED == "NotConnectedError"

C18_OriginAndCredential ==
    request # NoRequest =>
        /\ request.origin = API_BASE_URL
        /\ request.url = websocketUrl
        /\ (request.token # NONE) <=> (authToken # "")
        /\ authToken # "" => request.token = authToken

\* C18 witness: with a credential configured, the channel was opened by a
\* request that carried it.
C18_Witness ==
    /\ authToken = "tok"
    /\ readyState = "OPEN"
    /\ request = [url |-> "w1", origin |-> API_BASE_URL, token |-> "tok"]

\* ------------------------------------------------------------------------
\* The channel: handling frames that save no file
\* ------------------------------------------------------------------------
IsCompletion(msg) ==
    msg.type \in {"deployment_completed", "cloudflare_deployment_completed"}

LineageOf(msg) ==
    IF msg.type = "deployment_completed" THEN "preview" ELSE "production"

\* The URL fields of a completion frame, in the order of the lineage's
\* chain.
Chain(msg) ==
    IF msg.type = "deployment_completed"
    THEN <<msg.deployedUrl, msg.previewURL, msg.previewUrl>>
    ELSE <<msg.deploymentUrl, msg.workersUrl>>

RECURSIVE FirstNonEmpty(_)
\* The first field of a chain that is present and not empty; NULL when
\* there is none.
FirstNonEmpty(fields) ==
    IF fields = <<>> THEN NULL
    ELSE IF Head(fields) \notin {NONE, ""} THEN Head(fields)
    ELSE FirstNonEmpty(Tail(fields))

\* ws.on('message') for a frame that parses and saves no file: the handler
\* has no await and runs to its end at once (index.ts:179-186, 201-401).
HandleNotice(msg) ==
    /\ pc = "loop"
    /\ ws # NULL
    /\ readyState = "OPEN"
    /\ LET st == Effect(msg, HandlerState(lastDeploymentUrl, readyState))
       IN  /\ lastDeploymentUrl' = st.url
           /\ readyState' = st.readyState
           /\ ended' = Outcome(arrived + 1, st.ok)
           /\ noticeLog' = IF st.notice # NONE THEN noticeLog + 1 ELSE noticeLog
           /\ lastNotice' = IF st.notice # NONE THEN st.notice ELSE lastNotice
           /\ phaseShown' = IF msg.type \in PhaseTypes /\ st.notice # NONE
                            THEN [phaseShown EXCEPT ![msg.phaseNumber] = st.notice]
                            ELSE phaseShown
    /\ arrived' = arrived + 1
    /\ lastFrame' = msg
    /\ completed' = IF IsCompletion(msg)
                    THEN [completed EXCEPT ![LineageOf(msg)] = FirstNonEmpty(Chain(msg))]
                    ELSE completed
    /\ latestDone' = IF IsCompletion(msg) THEN FirstNonEmpty(Chain(msg))
                     ELSE latestDone
    /\ phaseFailed' = IF msg.type = "phase_failed"
                      THEN phaseFailed \cup {msg.phaseNumber} ELSE phaseFailed
    /\ UNCHANGED <<createVars, sessionVars, mainVars, loopVars, authToken, ws,
                   wsError, request, connects, filesMap, disk, handlers,
                   script, nCalls, lastCall, latest, ioFailed, written,
                   parseErrs, urlShown, serverVars>>

\* A listener that gives up the connection when a frame does not parse.
BadFrameCloses ==
    /\ pc = "loop"
    /\ ws # NULL
    /\ readyState = "OPEN"
    /\ arrived' = arrived + 1
    /\ parseErrs' = parseErrs + 1
    /\ readyState' = "CLOSING"
    /\ UNCHANGED <<createVars, sessionVars, mainVars, loopVars, authToken, ws,
                   wsError, request, connects, filesMap, disk, handlers,
                   script, ended, nCalls, lastCall, latest, ioFailed, written,
                   lastDeploymentUrl, noticeLog, lastNotice, urlShown,
                   lastFrame, completed, latestDone, phaseShown, phaseFailed,
                   serverVars>>

\* ws.on('message') for a frame that is not JSON: JSON.parse throws, the
\* catch block logs, the handler is not called (index.ts:179-186).
BadFrame ==
    /\ pc = "loop"
    /\ ws # NULL
    /\ readyState = "OPEN"
    /\ arrived' = arrived + 1
    /\ parseErrs' = parseErrs + 1
    /\ UNCHANGED <<createVars, sessionVars, mainVars, loopVars, wsVars,
                   filesMap, disk, handlers, script, ended, nCalls, lastCall,
                   latest, ioFailed, written, lastDeploymentUrl, noticeLog,
                   lastNotice, urlShown, lastFrame, completed, latestDone,
                   phaseShown, phaseFailed, serverVars>>

\* The channel after its first frame, file_generated for p1 with contents
\* A, has been handled and the file saved.
Synced ==
    /\ stream = Wire(<<IdentA>>, TRUE)
    /\ pos = Len(stream)
    /\ pc = "loop"
    /\ buffer = <<>>
    /\ agentId = "a1"
    /\ websocketUrl = "w1"
    /\ stdout = <<>>
    /\ errs = 0
    /\ acted = <<<<"identity", "a1", "w1">>>>
    /\ seen = <<IdentA>>
    /\ parsed = <<IdentA>>
    /\ carried = FALSE
    /\ filesMap = [NoFiles EXCEPT !["p1"] = "A"]
    /\ disk = [NoFiles EXCEPT !["p1"] = "A"]
    /\ handlers = {}
    /\ arrived = 1
    /\ script = <<>>
    /\ ended = Outcome(1, TRUE)
    /\ nCalls = 1
    /\ lastCall = <<"p1", "A">>
    /\ latest = [NoFiles EXCEPT !["p1"] = "A"]
    /\ ioFailed = FALSE
    /\ written = {OutputPath("a1", "p1")}
    /\ query = "todo"
    /\ netCalls = 1
    /\ fatal = NONE
    /\ authToken = ""
    /\ ws = SOCKET
    /\ readyState = "OPEN"
    /\ wsError = FALSE
    /\ request = UpgradeRequest("w1", "")
    /\ connects = 1
    /\ sent = <<>>
    /\ notConnected = 0
    /\ returned = NONE
    /\ cmds = 0
    /\ lastCmd = NONE
    /\ lastDeploymentUrl = NULL
    /\ noticeLog = 0
    /\ lastNotice = NONE
    /\ parseErrs = 0
    /\ urlShown = NONE
    /\ lastFrame = NoInbound
    /\ completed = NoUrls
    /\ latestDone = NONE
    /\ phaseShown = NoPhases
    /\ phaseFailed = {}
    /\ ServerIdle

\* The server sends one more frame, out of the set S, after the first.
ReceiveOf(S) ==
    /\ arrived <= MaxFrames
    /\ \E msg \in S : HandleNotice(msg)

\* The server sends something that is not JSON.
ReceiveBad ==
    /\ arrived <= MaxFrames
    /\ BadFrame

\* Deployments: completion and failure frames of both lineages, and /url.
NextDeploy ==
    \/ ReceiveOf(CompletionFrames \cup FailureFrames)
    \/ LocalCommand("/url")

SpecDeploy == Synced /\ [][NextDeploy]_vars

\* Notices: error frames, a frame of unknown type, a frame that is not
\* JSON, one completion frame, the command /deploy, and the end of the
\* connection.
NoticeFrames ==
    ErrorFrames \cup {UnknownFrame, DeploymentCompleted("u1", NONE, NONE)}

NextNotice ==
    \/ ReceiveOf(NoticeFrames)
    \/ ReceiveBad
    \/ SendCommand("/deploy")
    \/ PeerClose
    \/ CloseEvent

SpecNotice == Synced /\ [][NextNotice]_vars

\* Phases: the seven phase_* frames for two phase numbers.
NextPhase == ReceiveOf(PhaseFrames)

SpecPhase == Synced /\ [][NextPhase]_vars

\* ------------------------------------------------------------------------
\* Frames that save no file: properties
\* ------------------------------------------------------------------------
\* Everything the client keeps about deployments (index.ts:32).
Retrievable == {lastDeploymentUrl}

\* C23: the two deployment lineages are tracked independently: the URL of
\* each lineage's latest completed deployment can still be retrieved from
\* the client, whatever the other lineage has completed since.
C23_LineagesIndependent ==
    \A l \in Lineages :
        completed[l] \notin {NONE, NULL} => completed[l] \in Retrievable

\* This step handles a frame that parsed (and saves no file).
HandledStep == arrived' = arrived + 1 /\ parseErrs' = parseErrs

\* This step reads the command /url.
UrlStep == cmds' = cmds + 1 /\ lastCmd' = "/url"

\* C24: after any sequence of frames, the stored latest deployment URL is
\* the URL of the completion frame handled last, of either lineage, and
\* null while no completion frame has been handled; /url prints that URL,
\* and prints that no URL is available when there is none.
C24_LatestUrl ==
    [][/\ lastDeploymentUrl' = (IF latestDone' = NONE THEN NULL ELSE latestDone')
       /\ UrlStep => urlShown' = (IF latestDone \in {NONE, NULL} THEN NO_URL
                                  ELSE latestDone)]_vars

\* C24 witness: a preview completion (u1), a production completion (u4)
\* and a failure frame were handled, in this order, and /url then printed
\* u4.
C24_Witness ==
    /\ completed["preview"] = "u1"
    /\ completed["production"] = "u4"
    /\ latestDone = "u4"
    /\ lastFrame.type \in FailureTypes
    /\ arrived = 4
    /\ lastCmd = "/url"
    /\ urlShown = "u4"
    /\ lastDeploymentUrl = "u4"

\* C25: the URL stored for a completion frame is the first non-empty field
\* of its lineage's chain: deployedUrl, previewURL, previewUrl for
\* deployment_completed; deploymentUrl, workersUrl for
\* cloudflare_deployment_completed.
C25_FallbackChain ==
    [][(HandledStep /\ IsCompletion(lastFrame')) =>
          lastDeploymentUrl' = FirstNonEmpty(Chain(lastFrame'))]_vars

\* C25 witness: a deployment_completed frame without deployedUrl and with
\* both previewURL and previewUrl was handled, and previewURL was stored.
C25_Witness ==
    /\ lastFrame = DeploymentCompleted(NONE, "u2", "u3")
    /\ lastDeploymentUrl = "u2"

\* The channel, the file state and the session are as they were.
ChannelAndFilesUnchanged ==
    /\ UNCHANGED <<ws, readyState, wsError, request, connects>>
    /\ UNCHANGED <<filesMap, disk, handlers, written, nCalls>>
    /\ UNCHANGED <<agentId, websocketUrl, sent, pc>>

\* C26: a deployment failure frame of either lineage is logged as a notice
\* and changes nothing else: the latest deployment URL, what is recorded
\* for either lineage, the file map and the channel stay as they were.
C26_FailureIsNotice ==
    [][(HandledStep /\ lastFrame'.type \in FailureTypes) =>
          /\ noticeLog' = noticeLog + 1
          /\ lastNotice' = lastFrame'.type
          /\ ended' = Outcome(arrived', TRUE)
          /\ UNCHANGED <<lastDeploymentUrl, completed, latestDone>>
          /\ ChannelAndFilesUnchanged]_vars

\* C26 witness: after a preview completion a production failure frame was
\* handled: it was logged, and the preview URL is still the latest URL.
C26_Witness ==
    /\ lastFrame = Plain("cloudflare_deployment_error")
    /\ lastNotice = "cloudflare_deployment_error"
    /\ completed["preview"] = "u1"
    /\ lastDeploymentUrl = "u1"
    /\ filesMap["p1"] = "A"
    /\ readyState = "OPEN"

\* Frames are still taken in and commands still transmitted after this
\* step: the process runs, the socket is there and open.
StillInService == pc' = "loop" /\ ws' = SOCKET /\ readyState' = "OPEN"

\* C27: a frame whose type is not one of the known kinds does not make the
\* handler throw and changes no state (session, file map, latest
\* deployment URL, channel); frames that follow are still handled.
C27_UnknownIgnored ==
    [][(HandledStep /\ lastFrame'.type \notin KnownTypes) =>
          /\ ended' = Outcome(arrived', TRUE)
          /\ UNCHANGED <<lastDeploymentUrl, completed, latestDone>>
          /\ ChannelAndFilesUnchanged
          /\ StillInService]_vars

\* C27 witness: with a file in the map and a deployment URL stored, a
\* frame of unknown type was handled as the third frame.
C27_Witness ==
    /\ lastFrame = UnknownFrame
    /\ lastNotice = "unknown"
    /\ ended = Outcome(3, TRUE)
    /\ lastDeploymentUrl = "u1"
    /\ filesMap["p1"] = "A"
    /\ readyState = "OPEN"

\* C28: an error or rate_limit_error frame is logged as a notice and never
\* closes the channel: after it the socket is still open, local state is
\* as it was, and later frames and commands are still served.
C28_ErrorKeepsChannel ==
    [][(HandledStep /\ lastFrame'.type \in ErrorTypes) =>
          /\ noticeLog' = noticeLog + 1
          /\ lastNotice' = lastFrame'.type
          /\ ended' = Outcome(arrived', TRUE)
          /\ UNCHANGED <<lastDeploymentUrl, completed, latestDone>>
          /\ ChannelAndFilesUnchanged
          /\ StillInService]_vars

\* C28 witness: a rate_limit_error frame was handled, the channel is open,
\* and the command /deploy has been transmitted.
C28_Witness ==
    /\ lastFrame = Plain("rate_limit_error")
    /\ lastNotice = "rate_limit_error"
    /\ readyState = "OPEN"
    /\ ws = SOCKET
    /\ lastCmd = "/deploy"
    /\ sent = <<OutFrame("deploy", NONE)>>
    /\ notConnected = 0

\* C29: a frame that is not valid JSON is logged and dropped: it changes
\* no local state and does not close the channel, and frames that follow
\* are still handled.
C29_BadFrameDropped ==
    [][(arrived' = arrived + 1 /\ parseErrs' = parseErrs + 1) =>
          /\ UNCHANGED <<lastDeploymentUrl, completed, latestDone, lastFrame,
                         noticeLog, lastNotice, ended>>
          /\ ChannelAndFilesUnchanged
          /\ StillInService]_vars

\* C29 witness: the second frame was not JSON; the third, a completion
\* frame, was handled and its URL stored.
C29_Witness ==
    /\ parseErrs = 1
    /\ arrived = 3
    /\ ended = Outcome(3, TRUE)
    /\ lastFrame = DeploymentCompleted("u1", NONE, NONE)
    /\ lastDeploymentUrl = "u1"

\* C30: a failed phase stays failed: once a phase_failed frame has been
\* handled for a phase number, the status the client presents for that
\* number is `failed`, whatever phase frames follow for it.
C30_FailedPhaseSticky ==
    \A n \in phaseFailed : phaseShown[n] = "phase_failed"

\* C36: a completion frame of either lineage without any non-empty URL
\* field sets the latest deployment URL to null, whatever was stored
\* before, and a /url read while the latest completion is such a frame
\* prints that no deployment URL is available.
C36_NoUrlMeansUnavailable ==
    [][/\ (HandledStep /\ IsCompletion(lastFrame')
            /\ FirstNonEmpty(Chain(lastFrame')) = NULL) =>
                lastDeploymentUrl' = NULL
       /\ (UrlStep /\ latestDone = NULL) => urlShown' = NO_URL]_vars

\* C36 witness: the preview completion stored u1; a production completion
\* whose only URL field is the empty string followed and cleared it, and
\* /url printed that no URL is available.
C36_Witness ==
    /\ completed["preview"] = "u1"
    /\ lastFrame = CloudflareCompleted("", NONE)
    /\ latestDone = NULL
    /\ lastDeploymentUrl = NULL
    /\ lastCmd = "/url"
    /\ urlShown = NO_URL

\* ------------------------------------------------------------------------
\* Outbound commands racing with inbound frames
\* ------------------------------------------------------------------------
OutboundFrames == {DeploymentCompleted("u1", NONE, NONE), Plain("error")}

\* Every sending command, inbound frames and the end of the connection,
\* in any order.
NextOutbound ==
    \/ \E cmd \in SendCommands : SendCommand(cmd)
    \/ ReceiveOf(OutboundFrames)
    \/ PeerClose
    \/ CloseEvent

SpecOutbound == Synced /\ [][NextOutbound]_vars

\* The frame type of each sending command, as the protocol fixes it.
Vocabulary ==
    [cmd \in SendCommands |->
        CASE cmd = "/generate" -> "generate_all"
          [] cmd = "/preview"  -> "preview"
          [] cmd = "/deploy"   -> "deploy"
          [] cmd = "/stop"     -> "stop_generation"
          [] cmd = "/state"    -> "get_conversation_state"
          [] cmd = "/clear"    -> "clear_conversation"
          [] cmd = "/chat hi"  -> "user_suggestion"]

\* This step is commandLoop reading a sending command.
SendStep == cmds' = cmds + 1 /\ lastCmd' \in SendCommands

\* What the client knows of the session: identity, files, deployment URL,
\* and what it has logged of inbound frames.
LocalState ==
    <<agentId, websocketUrl, filesMap, disk, written, lastDeploymentUrl,
      completed, latestDone, noticeLog, lastNotice, lastFrame, arrived,
      ended, parseErrs>>

\* C31: a sending command transmits at most one frame, of the type the
\* vocabulary fixes for the command, returns without waiting for a reply
\* (it neither takes in a frame nor leaves the loop), and changes no local
\* session state; so the local state is that of the inbound frames alone:
\* the stored URL is the one of the last completion frame whatever was
\* sent in between.
C31_FireAndForget ==
    [][/\ SendStep =>
            /\ \/ sent' = sent
               \/ /\ Len(sent') = Len(sent) + 1
                  /\ SubSeq(sent', 1, Len(sent)) = sent
                  /\ sent'[Len(sent')].type = Vocabulary[lastCmd']
            /\ returned' = VOID
            /\ pc' = "loop"
            /\ UNCHANGED LocalState
            /\ UNCHANGED <<ws, readyState, wsError, connects>>
       /\ lastDeploymentUrl' = (IF latestDone' = NONE THEN NULL ELSE latestDone')
      ]_vars

\* C31 witness: /preview was sent, the completion frame came in and its
\* URL was stored, then /deploy and /chat were sent: three frames are out
\* and the URL is still stored.
C31_Witness ==
    /\ sent = <<OutFrame("preview", NONE), OutFrame("deploy", NONE),
                OutFrame("user_suggestion", "hi")>>
    /\ lastFrame = DeploymentCompleted("u1", NONE, NONE)
    /\ lastDeploymentUrl = "u1"
    /\ filesMap["p1"] = "A"
    /\ readyState = "OPEN"

\* ------------------------------------------------------------------------
\* The server: startCodeGeneration (controller.ts:36-173)
\* ------------------------------------------------------------------------
\* The client of these scenarios has not started.
ClientIdle ==
    /\ query = "todo"
    /\ stream = <<>>
    /\ netCalls = 0
    /\ fatal = NONE
    /\ authToken = ""
    /\ ws = NULL
    /\ readyState = NONE
    /\ wsError = FALSE
    /\ request = NoRequest
    /\ connects = 0
    /\ sent = <<>>
    /\ notConnected = 0
    /\ returned = NONE
    /\ cmds = 0
    /\ lastCmd = NONE
    /\ lastDeploymentUrl = NULL
    /\ noticeLog = 0
    /\ lastNotice = NONE
    /\ parseErrs = 0
    /\ urlShown = NONE
    /\ lastFrame = NoInbound
    /\ completed = NoUrls
    /\ latestDone = NONE
    /\ phaseShown = NoPhases
    /\ phaseFailed = {}
    /\ pos = 0
    /\ pc = "fetch"
    /\ buffer = <<>>
    /\ agentId = NULL
    /\ websocketUrl = NULL
    /\ stdout = <<>>
    /\ errs = 0
    /\ acted = <<>>
    /\ seen = <<>>
    /\ parsed = <<>>
    /\ carried = FALSE
    /\ filesMap = NoFiles
    /\ disk = NoFiles
    /\ handlers = {}
    /\ arrived = 0
    /\ script = <<>>
    /\ ended = NoHandler
    /\ nCalls = 0
    /\ lastCall = NoCall
    /\ latest = NoFiles
    /\ ioFailed = FALSE
    /\ written = {}

\* onBlueprintChunk is called at most this many times.
MaxChunks == 2

\* generateId() (controller.ts:78)
AgentIds == {"a1", "a2"}
\* The texts initialize passes to onBlueprintChunk.
BlueprintChunks == {"hello", "plan"}

\* What is handed to writer.write: an object or a string.
Written(k, a, w, h, t) ==
    [kind |-> k, agentId |-> a, websocketUrl |-> w, httpStatusUrl |-> h,
     text |-> t]

\* A channel URL made for another agent.
WebsocketUrlOfOther(id) == <<"ws://x", "/api/agent/", "a0", "/ws">>

\* `${protocol}//${url.host}/api/agent/${agentId}/ws` (controller.ts:116)
WebsocketUrlOf(id) == <<"ws://x", "/api/agent/", id, "/ws">>

\* `${url.origin}/api/agent/${agentId}` (controller.ts:117)
HttpStatusUrlOf(id) == <<"http://x", "/api/agent/", id>>

\* The first object written (controller.ts:126-135).
IdentityObject(id) ==
    Written("identity", id, WebsocketUrlOf(id), HttpStatusUrlOf(id), NONE)

\* {chunk} (controller.ts:145)
ChunkObject(c) == Written("chunk", NONE, <<>>, <<>>, c)

\* "terminate" (controller.ts:150)
TerminateString == Written("string", NONE, <<>>, <<>>, "terminate")

\* writer.close() (controller.ts:151), queued behind the writes.
CloseRequest == Written("close", NONE, <<>>, <<>>, NONE)

\* JSON.stringify(chunk) (controller.ts:59); each line is followed by '\n'.
JSONStringify(v) ==
    CASE v.kind = "identity" ->
            <<"{message:Code generation started,agentId:", v.agentId,
              ",websocketUrl:">> \o v.websocketUrl \o <<",httpStatusUrl:">>
            \o v.httpStatusUrl \o <<",template:{name:t,files:[]}", "}">>
      [] v.kind = "chunk" -> <<"{chunk:", v.text, "}">>
      [] OTHER -> <<"\"", v.text, "\"">>

\* chunk === "terminate" (controller.ts:56)
IsTerminate(v) == v.kind = "string" /\ v.text = "terminate"

\* The request has come in and its body has been parsed.
InitServer ==
    /\ ClientIdle
    /\ upgrade = NoUpgrade
    /\ images = NoImages
    /\ \E q \in Queries : creation = [NoCreation EXCEPT !.pc = "start",
                                                       !.query = q]

\* if (!query) return createErrorResponse(..., 400) (controller.ts:50-53)
MissingQuery ==
    /\ creation.pc = "start"
    /\ ~ServerAccepts(creation.query)
    /\ creation' = [creation EXCEPT !.pc = "error", !.status = 400]
    /\ UNCHANGED <<clientVars, upgrade, images>>

\* enforceAppCreationRateLimit throws (controller.ts:67-76)
RateLimited ==
    /\ creation.pc = "start"
    /\ ServerAccepts(creation.query)
    /\ creation' = [creation EXCEPT !.pc = "error", !.status = 429]
    /\ UNCHANGED <<clientVars, upgrade, images>>

\* One of the awaits of controller.ts:82-124 rejects; the outer catch
\* answers with handleError (controller.ts:169-172).
SetupThrows ==
    /\ creation.pc = "start"
    /\ ServerAccepts(creation.query)
    /\ creation' = [creation EXCEPT !.pc = "error", !.status = 500]
    /\ UNCHANGED <<clientVars, upgrade, images>>

\* controller.ts:126-168, which has no await: the identity object is
\* written, initialize is called, the then-callback attached and the
\* response with the readable side returned.
Launch(id) ==
    /\ creation.pc = "start"
    /\ ServerAccepts(creation.query)
    /\ creation' = [creation EXCEPT !.pc = "init", !.agentId = id,
                                    !.queue = <<IdentityObject(id)>>,
                                    !.status = 200]
    /\ UNCHANGED <<clientVars, upgrade, images>>

\* writer.write(v): queued while the writable side is neither errored nor
\* closing, rejected otherwise.
WriterWrite(q, v, errored) ==
    IF errored \/ (q # <<>> /\ q[Len(q)] = CloseRequest) THEN q
    ELSE Append(q, v)

\* initialize calls onBlueprintChunk (controller.ts:144-146).
OnBlueprintChunk(c) ==
    /\ creation.pc = "init"
    /\ creation.chunks < MaxChunks
    /\ creation' = [creation EXCEPT
                        !.chunks = @ + 1,
                        !.queue = WriterWrite(@, ChunkObject(c),
                                              creation.errored)]
    /\ UNCHANGED <<clientVars, upgrade, images>>

\* agentPromise is fulfilled: the then-callback writes "terminate" and
\* closes the writer (controller.ts:149-153).
InitializeResolves ==
    /\ creation.pc = "init"
    /\ creation' = [creation EXCEPT
                        !.pc = "resolved",
                        !.queue = WriterWrite(
                                    WriterWrite(@, TerminateString,
                                                creation.errored),
                                    CloseRequest, creation.errored)]
    /\ UNCHANGED <<clientVars, upgrade, images>>

\* agentPromise is rejected: nothing is attached for that outcome
\* (controller.ts:149-153 has a then with one callback and no catch).
InitializeRejects ==
    /\ creation.pc = "init"
    /\ creation' = [creation EXCEPT !.pc = "rejected"]
    /\ UNCHANGED <<clientVars, upgrade, images>>

\* The stream takes the next queued item: transform (controller.ts:55-62)
\* for a written chunk, the close of the writable side for a close
\* request.  controller.terminate() closes the readable side and errors
\* the writable side, which drops what is still queued.
Transform ==
    /\ creation.queue # <<>>
    /\ LET v == Head(creation.queue) IN
        creation' =
            IF IsTerminate(v)
            THEN [creation EXCEPT !.queue = <<>>, !.closed = TRUE,
                                  !.errored = TRUE]
            ELSE IF v = CloseRequest
            THEN [creation EXCEPT !.queue = <<>>, !.closed = TRUE]
            ELSE [creation EXCEPT !.queue = Tail(@),
                                  !.wire = Append(@, JSONStringify(v))]
    /\ UNCHANGED <<clientVars, upgrade, images>>

NextServer ==
    \/ MissingQuery
    \/ RateLimited
    \/ SetupThrows
    \/ \E id \in AgentIds : Launch(id)
    \/ \E c \in BlueprintChunks : OnBlueprintChunk(c)
    \/ InitializeResolves
    \/ InitializeRejects
    \/ Transform

SpecServer == InitServer /\ [][NextServer]_vars

\* The stream works off what is written, and initialize settles one way
\* or the other.
SpecServerLive ==
    /\ SpecServer
    /\ WF_vars(Transform)
    /\ WF_vars(InitializeResolves \/ InitializeRejects)
    /\ WF_vars(\E id \in AgentIds : Launch(id))

\* ------------------------------------------------------------------------
\* startCodeGeneration: properties
\* ------------------------------------------------------------------------
\* initialize was fulfilled and the client has seen the end of the stream.
CompletedGracefully == creation.pc = "resolved" /\ creation.closed

\* C32: a creation response that completes gracefully ends with the
\* terminate line: the last line on the wire before the stream closes is
\* the sentinel the client looks for.
C32_TerminateLineLast ==
    CompletedGracefully =>
        /\ creation.wire # <<>>
        /\ creation.wire[Len(creation.wire)] = Terminate

IsIdentityLine(l) == l[1] = "{message:Code generation started,agentId:"
IsChunkLine(l) == l[1] = "{chunk:"

\* Everything written so far, in order: the lines out and the objects
\* still queued, as lines.
AllWritten ==
    creation.wire \o
    [i \in 1..Len(creation.queue) |-> JSONStringify(creation.queue[i])]

\* C33: in every creation response the identity object is the first
\* object written and the only identity object, every chunk object comes
\* after it, and the channel URL in it names the agent id it carries.
C33_IdentityFirst ==
    creation.status = 200 =>
        /\ AllWritten # <<>>
        /\ IsIdentityLine(AllWritten[1])
        /\ AllWritten[1][2] = creation.agentId
        /\ AllWritten[1][5] = "/api/agent/"
        /\ AllWritten[1][6] = AllWritten[1][2]
        /\ \A i \in 2..Len(AllWritten) : ~IsIdentityLine(AllWritten[i])
        /\ \A i \in 1..Len(creation.wire) :
              IsChunkLine(creation.wire[i]) => i > 1

\* C33 witness: the response for agent a2 is complete on the wire: the
\* identity object, then two chunk objects.
C33_Witness ==
    /\ creation.closed
    /\ creation.agentId = "a2"
    /\ Len(creation.wire) = 3
    /\ IsIdentityLine(creation.wire[1])
    /\ creation.wire[2] = JSONStringify(ChunkObject("hello"))
    /\ creation.wire[3] = JSONStringify(ChunkObject("plan"))

\* C34: every creation response stream that is opened is eventually
\* closed, whatever the outcome of initialize.
C34_StreamEventuallyClosed ==
    (creation.status = 200) ~> creation.closed

\* ------------------------------------------------------------------------
\* The server: handleWebSocketConnection (controller.ts:179-281)
\* ------------------------------------------------------------------------
\* What the handler is called with: the agentId path parameter, the Upgrade
\* header, whether validateWebSocketOrigin accepts the request's origin,
\* the user of the route context, and what the agent does: getAgentStub
\* throws ("unobtainable"), isInitialized throws ("unreachable"), or it
\* answers false ("stale") or true ("initialized").
UpgradeRequests ==
    [chatId : {NONE, "a1"}, upgradeHeader : {NONE, "websocket", "h2c"},
     originValid : BOOLEAN, user : {NONE, "u1"},
     agent : {"unobtainable", "unreachable", "stale", "initialized"}]

\* What the handler has done when it returns: the status of its response
\* (0 while the response is the agent's own), the checks it ran, in order,
\* the calls it made on the agent, in order, and what it did with the
\* server side of a WebSocketPair.
UpgradeOutcome(s, cs, as, sock) ==
    [status |-> s, checks |-> cs, agentCalls |-> as, socket |-> sock]

\* accept, send one error frame, close with 1011 (controller.ts:241-247,
\* 262-270)
ErrorSocket == <<"accept", "send:error", "close:1011">>

\* An upgrade handler that looks the agent up before it checks the origin.
HandleUpgradeOriginLate(req) ==
    IF req.chatId = NONE THEN UpgradeOutcome(400, <<"id">>, <<>>, <<>>)
    ELSE IF req.upgradeHeader # "websocket"
    THEN UpgradeOutcome(426, <<"id", "upgrade">>, <<>>, <<>>)
    ELSE IF ~req.originValid
    THEN UpgradeOutcome(403, <<"id", "upgrade", "origin">>, <<"getAgentStub">>, <<>>)
    ELSE IF req.user = NONE
    THEN UpgradeOutcome(401, <<"id", "upgrade", "origin", "user">>, <<>>, <<>>)
    ELSE LET cs == <<"id", "upgrade", "origin", "user">> IN
         CASE req.agent = "unobtainable" ->
                UpgradeOutcome(101, cs, <<"getAgentStub">>, ErrorSocket)
           [] req.agent = "unreachable" ->
                UpgradeOutcome(101, cs, <<"getAgentStub", "isInitialized">>, ErrorSocket)
           [] req.agent = "stale" ->
                UpgradeOutcome(101, cs, <<"getAgentStub", "isInitialized">>, ErrorSocket)
           [] OTHER ->
                UpgradeOutcome(0, cs, <<"getAgentStub", "isInitialized", "fetch">>, <<>>)

\* An upgrade handler that hands the request to an agent that is not
\* initialised.
HandleUpgradeForwardsStale(req) ==
    IF req.chatId = NONE THEN UpgradeOutcome(400, <<"id">>, <<>>, <<>>)
    ELSE IF req.upgradeHeader # "websocket"
    THEN UpgradeOutcome(426, <<"id", "upgrade">>, <<>>, <<>>)
    ELSE IF ~req.originValid
    THEN UpgradeOutcome(403, <<"id", "upgrade", "origin">>, <<>>, <<>>)
    ELSE IF req.user = NONE
    THEN UpgradeOutcome(401, <<"id", "upgrade", "origin", "user">>, <<>>, <<>>)
    ELSE LET cs == <<"id", "upgrade", "origin", "user">> IN
         CASE req.agent = "unobtainable" ->
                UpgradeOutcome(101, cs, <<"getAgentStub">>, ErrorSocket)
           [] req.agent = "unreachable" ->
                UpgradeOutcome(101, cs, <<"getAgentStub", "isInitialized">>, ErrorSocket)
           [] OTHER ->
                UpgradeOutcome(0, cs, <<"getAgentStub", "isInitialized", "fetch">>, <<>>)

\* handleWebSocketConnection: the four checks in the order of the code
\* (controller.ts:186-205), then the agent (controller.ts:223-276).  An
\* error of getAgentStub or isInitialized is caught by the inner catch.
HandleUpgrade(req) ==
    IF req.chatId = NONE THEN UpgradeOutcome(400, <<"id">>, <<>>, <<>>)
    ELSE IF req.upgradeHeader # "websocket"
    THEN UpgradeOutcome(426, <<"id", "upgrade">>, <<>>, <<>>)
    ELSE IF ~req.originValid
    THEN UpgradeOutcome(403, <<"id", "upgrade", "origin">>, <<>>, <<>>)
    ELSE IF req.user = NONE
    THEN UpgradeOutcome(401, <<"id", "upgrade", "origin", "user">>, <<>>, <<>>)
    ELSE LET cs == <<"id", "upgrade", "origin", "user">> IN
         CASE req.agent = "unobtainable" ->
                UpgradeOutcome(101, cs, <<"getAgentStub">>, ErrorSocket)
           [] req.agent = "unreachable" ->
                UpgradeOutcome(101, cs, <<"getAgentStub", "isInitialized">>, ErrorSocket)
           [] req.agent = "stale" ->
                UpgradeOutcome(101, cs, <<"getAgentStub", "isInitialized">>, ErrorSocket)
           [] OTHER ->
                UpgradeOutcome(0, cs, <<"getAgentStub", "isInitialized", "fetch">>, <<>>)

\* A request has come in.
InitUpgrade ==
    /\ ClientIdle
    /\ creation = NoCreation
    /\ images = NoImages
    /\ \E req \in UpgradeRequests : upgrade = [pc |-> "request", req |-> req]

\* The handler runs and returns.
Upgrade ==
    /\ upgrade.pc = "request"
    /\ upgrade' = [pc |-> "done", req |-> upgrade.req,
                   out |-> HandleUpgrade(upgrade.req)]
    /\ UNCHANGED <<clientVars, creation, images>>

SpecUpgrade == InitUpgrade /\ [][Upgrade]_vars

\* The handler has returned.
Upgraded == upgrade.pc = "done"

\* The order the checks are specified in.
CheckOrder == <<"id", "upgrade", "origin", "user">>

\* C37: the checks run in the order agent id (400), upgrade header (426),
\* origin (403); a request that fails one of them gets that status, no
\* later check is run on it, and no agent is looked up or contacted for
\* it; in particular an invalid origin is answered with 403 before any
\* agent instance is looked up.
C37_ChecksInOrder ==
    Upgraded =>
        LET req == upgrade.req
            out == upgrade.out
            failed ==
                IF req.chatId = NONE THEN 1
                ELSE IF req.upgradeHeader # "websocket" THEN 2
                ELSE IF ~req.originValid THEN 3
                ELSE 0
        IN  /\ out.checks = SubSeq(CheckOrder, 1, Len(out.checks))
            /\ failed # 0 =>
                  /\ out.status = <<400, 426, 403>>[failed]
                  /\ out.checks = SubSeq(CheckOrder, 1, failed)
                  /\ out.agentCalls = <<>>
                  /\ out.socket = <<>>
            /\ failed = 0 => out.status \notin {400, 426, 403}

\* C37 witness: a request with an agent id, the websocket upgrade header
\* and an invalid origin, for an initialised agent, was answered with 403.
C37_Witness ==
    /\ Upgraded
    /\ upgrade.req = [chatId |-> "a1", upgradeHeader |-> "websocket",
                      originValid |-> FALSE, user |-> "u1",
                      agent |-> "initialized"]
    /\ upgrade.out.status = 403
    /\ upgrade.out.agentCalls = <<>>

\* The request has passed the four checks.
Admitted(req) ==
    /\ req.chatId # NONE
    /\ req.upgradeHeader = "websocket"
    /\ req.originValid
    /\ req.user # NONE

\* C38: for an admitted request whose agent is not initialised, or whose
\* instance cannot be obtained, the server accepts a socket, sends exactly
\* one error frame on it and closes it with 1011, answers 101, and never
\* forwards the request; a request is forwarded only to an initialised
\* agent.
C38_StaleAgentRefused ==
    Upgraded =>
        LET req == upgrade.req
            out == upgrade.out
            forwarded == \E i \in 1..Len(out.agentCalls) : out.agentCalls[i] = "fetch"
        IN  /\ (Admitted(req) /\ req.agent # "initialized") =>
                  /\ out.status = 101
                  /\ out.socket = <<"accept", "send:error", "close:1011">>
                  /\ ~forwarded
            /\ forwarded => (Admitted(req) /\ req.agent = "initialized")

\* C38 witness: an admitted request for an agent that is not initialised
\* was answered with the error socket.
C38_Witness ==
    /\ Upgraded
    /\ Admitted(upgrade.req)
    /\ upgrade.req.agent = "stale"
    /\ upgrade.out.status = 101
    /\ upgrade.out.socket = ErrorSocket
    /\ upgrade.out.agentCalls = <<"getAgentStub", "isInitialized">>

\* ------------------------------------------------------------------------
\* The server: processImagePlaceholders (imageProcessor.ts:24-87)
\* ------------------------------------------------------------------------
\* The code is at most this many pieces: placeholders and other text.
MaxPieces == 2

\* A piece of code: a placeholder {IMAGE:keyword} or {IMAGE:keyword:size},
\* other text, or (in the result) the URL of an image of a size, found for
\* a keyword or taken from the curated list.
Piece(k, kw, sz) == [kind |-> k, keyword |-> kw, size |-> sz]
Placeholder(kw, sz) == Piece("placeholder", kw, sz)
OtherText == Piece("text", NONE, NONE)
ImageUrl(kw, sz) == Piece("url", kw, sz)
NoImage == Piece("null", NONE, NONE)

Keywords == {"cat", "random"}
\* RANDOM_KEYWORDS (imageProcessor.ts:12), as far as Keywords has them
RANDOM_KEYWORDS == {"random"}
PlaceholderSizes == {NONE, "small", "medium"}
DefaultSizes == {"large", "medium"}

Pieces == {Placeholder(kw, sz) : kw \in Keywords, sz \in PlaceholderSizes}
              \cup {OtherText}
Codes == UNION {[1..n -> Pieces] : n \in 0..MaxPieces}

\* What the caller passes: the code, the options, and how the image
\* service answers: the keywords a search finds an image for, and whether
\* the curated list has one.
ImageCalls ==
    [code : Codes, defaultSize : DefaultSizes, useFallback : BOOLEAN,
     found : SUBSET (Keywords \ RANDOM_KEYWORDS), curated : BOOLEAN]

\* pexelsService.getContextualImage(keyword, size)
GetContextualImage(call, kw, sz) ==
    IF kw \in call.found THEN ImageUrl(kw, sz) ELSE NoImage

\* pexelsService.getCuratedImage(size)
GetCuratedImage(call, sz) ==
    IF call.curated THEN ImageUrl("curated", sz) ELSE NoImage

\* code.matchAll(IMAGE_PLACEHOLDER_REGEX) (imageProcessor.ts:9, 35): the
\* placeholders in their order; m[1] is the keyword, m[2] the size.
RECURSIVE Matches(_)
Matches(code) ==
    IF code = <<>> THEN <<>>
    ELSE (IF Head(code).kind = "placeholder" THEN <<Head(code)>> ELSE <<>>)
         \o Matches(Tail(code))

\* The URL fetched for a keyword (imageProcessor.ts:48-72): NoImage when
\* nothing is entered in keywordToUrl.
UrlForKeyword(call, kw) ==
    IF kw \in RANDOM_KEYWORDS
    THEN GetCuratedImage(call, call.defaultSize)
    ELSE LET imageUrl == GetContextualImage(call, kw, call.defaultSize) IN
         IF imageUrl # NoImage THEN imageUrl
         ELSE IF call.useFallback THEN GetCuratedImage(call, call.defaultSize)
         ELSE NoImage

\* keywordToUrl after the Promise.all (imageProcessor.ts:42-73), over the
\* keywords of the matches (uniqueKeywords).
KeywordToUrl(call) ==
    [kw \in {Matches(call.code)[i].keyword : i \in 1..Len(Matches(call.code))}
        |-> UrlForKeyword(call, kw)]

\* String.prototype.replace with a string pattern: the first occurrence.
RECURSIVE ReplaceFirst(_, _, _)
ReplaceFirst(code, placeholder, url) ==
    IF code = <<>> THEN <<>>
    ELSE IF Head(code) = placeholder THEN <<url>> \o Tail(code)
    ELSE <<Head(code)>> \o ReplaceFirst(Tail(code), placeholder, url)

\* The replacement loop (imageProcessor.ts:76-84) over the matches ms.
RECURSIVE ReplaceAll(_, _, _)
ReplaceAll(processedCode, ms, map) ==
    IF ms = <<>> THEN processedCode
    ELSE LET url == map[Head(ms).keyword] IN
         ReplaceAll(IF url # NoImage
                    THEN ReplaceFirst(processedCode, Head(ms), url)
                    ELSE processedCode,
                    Tail(ms), map)

\* processImagePlaceholders(code, pexelsService, options)
ProcessImagePlaceholders(call) ==
    IF Matches(call.code) = <<>> THEN call.code
    ELSE ReplaceAll(call.code, Matches(call.code), KeywordToUrl(call))

InitImages ==
    /\ ClientIdle
    /\ creation = NoCreation
    /\ upgrade = NoUpgrade
    /\ \E call \in ImageCalls : images = [pc |-> "called", call |-> call]

\* The function runs and returns the processed code.
Process ==
    /\ images.pc = "called"
    /\ images' = [pc |-> "done", call |-> images.call,
                  out |-> ProcessImagePlaceholders(images.call)]
    /\ UNCHANGED <<clientVars, creation, upgrade>>

SpecImages == InitImages /\ [][Process]_vars

\* The size a placeholder asks for: the one it names, the default when it
\* names none.
SizeAskedFor(piece, call) ==
    IF piece.size = NONE THEN call.defaultSize ELSE piece.size

\* C39: every placeholder that is replaced is replaced with an image of
\* the size it names, and of the default size only if it names none.
C39_SizeHonoured ==
    images.pc = "done" =>
        \A i \in 1..Len(images.call.code) :
            (images.call.code[i].kind = "placeholder"
                /\ images.out[i].kind = "url") =>
                    images.out[i].size = SizeAskedFor(images.call.code[i],
                                                      images.call)

====
